---- MODULE Spec2Model ----
(***************************************************************************)
(* AI Movie Studio AI service (src/ai_service): the scene state tracker    *)
(* (scene_analyzer.py), the rule-based intent parser (nlp_engine.py), the  *)
(* decision synthesizer (decision_engine.py), the optional Ollama provider *)
(* (ollama_client.py), the service lifecycle (main.py) and the request     *)
(* handlers (api.py).                                                      *)
(*                                                                         *)
(* Conventions.                                                            *)
(*  - Every real number of the program (a coordinate, a height, an         *)
(*    intensity, a timestamp) is stored as its integer count of TENTHS:    *)
(*    2.0 is 20, 0.5 is 5, -2 is -20.                                      *)
(*  - A Python dict is an insertion-ordered sequence of [k, v] pairs with  *)
(*    distinct keys; a Python dict used as a record of optional keys (a    *)
(*    request body, a scene item) is a TLA+ record whose DOMAIN is the     *)
(*    set of keys that are present.                                        *)
(*  - A Python str is a string; its characters are its one-character      *)
(*    substrings (SubSeq, Head, Tail and \o apply to strings).             *)
(*  - None is the string "None" where a value may be a str or None.        *)
(*  - A call that may raise returns a record with a field raised.          *)
(*  - All request handlers are coroutines on one event loop and none of    *)
(*    them suspends between its first and last statement (the awaited     *)
(*    component coroutines contain no await), so a handler is one step.    *)
(***************************************************************************)
EXTENDS Integers, Sequences, FiniteSets, TLC

VARIABLES
    ollama_client,    \* main.py:33    the optional provider (global)
    nlp_engine,       \* main.py:34    the rule-based parser (global)
    scene_analyzer,   \* main.py:35    the scene state tracker (global)
    decision_engine,  \* main.py:36    the decision synthesizer (global)
    heap,             \* the scene dicts the tracker and its history refer to
    request,          \* the last call made on the service (operation, arguments)
    response,         \* what that call returned or raised
    applied,          \* log of the tracker updates that completed, oldest first
    nUpdateCalls      \* number of update calls made so far

vars == <<ollama_client, nlp_engine, scene_analyzer, decision_engine, heap,
          request, response, applied, nUpdateCalls>>

(***************************************************************************)
(* Bounds of the model and constants of the program.                       *)
(***************************************************************************)
\* update calls explored under Spec
MaxUpdates == 2
\* update calls explored under SpecHistory (more than the history limit)
MaxHistoryUpdates == 102
\* update calls under SpecHistory whose payload is chosen freely
FreeUpdates == 2

\* scene_analyzer.py:79  "Keep only last 100 history entries"
HistoryLimit == 100
\* api.py:51  "Too many items (max 1000)"
MaxItems == 1000
\* scene_analyzer.py:16  current_scene = None
NoneRef == 0

(***************************************************************************)
(* Python helpers.                                                         *)
(***************************************************************************)
HasKey(d, k) == k \in DOMAIN d

\* dict.get(k, default) on a record of optional keys
Get(d, k, default) == IF k \in DOMAIN d THEN d[k] ELSE default

Max(S) == CHOOSE m \in S : \A n \in S : n <= m

\* round(): Python rounds a float to the nearest integer, ties to even.
\* t is in tenths; every tie (x.5) is exact in binary floating point.
PyRound(t) ==
    LET q == t \div 10
        r == t % 10
    IN  IF r < 5 THEN q
        ELSE IF r > 5 THEN q + 1
        ELSE IF q % 2 = 0 THEN q ELSE q + 1

\* d[k] = v on an insertion-ordered dict: an existing key keeps its place
DictSet(d, k, v) ==
    IF \E i \in 1..Len(d) : d[i].k = k
    THEN [i \in 1..Len(d) |-> IF d[i].k = k THEN [k |-> k, v |-> v] ELSE d[i]]
    ELSE Append(d, [k |-> k, v |-> v])

DictKeys(d) == {d[i].k : i \in 1..Len(d)}

DictGet(d, k) == d[CHOOSE i \in 1..Len(d) : d[i].k = k].v

\* {item["name"]: item for item in items}, for items that all have a name:
\* the items are inserted from left to right, the first half of the list
\* and then the second, so that a scene of hundreds of items nests the
\* evaluation only as deep as the logarithm of its length
RECURSIVE NameDictFrom(_, _)
NameDictFrom(items, acc) ==
    IF items = <<>> THEN acc
    ELSE IF Len(items) = 1 THEN DictSet(acc, items[1].name, items[1])
    ELSE LET half == Len(items) \div 2
             left == NameDictFrom(SubSeq(items, 1, half), acc)
             right == SubSeq(items, half + 1, Len(items))
         IN  IF left = <<>> THEN NameDictFrom(right, <<>>)
             ELSE NameDictFrom(right, left)

\* the comprehension raises KeyError at the first item without "name"
NameDict(items) ==
    IF \E i \in 1..Len(items) : ~HasKey(items[i], "name")
    THEN [raised |-> TRUE, err |-> "'name'", val |-> <<>>]
    ELSE [raised |-> FALSE, err |-> "", val |-> NameDictFrom(items, <<>>)]

(***************************************************************************)
(* Requests and responses.                                                 *)
(***************************************************************************)
NoArgs == [k \in {} |-> 0]

\* a value returned by a handler (HTTP 200) or by a component method (status 0)
Returned(status, body) == [raised |-> FALSE, status |-> status, body |-> body]

\* raise HTTPException(status_code=500, detail=str(e)), a pydantic
\* validation error (422), or an exception out of a component method (status 0)
Raised(status, detail) == [raised |-> TRUE, status |-> status, body |-> [detail |-> detail]]

(***************************************************************************)
(* The heap of scene dicts.  heap[a] is the dict at address a; its values  *)
(* (the category maps) are never mutated in place by any code, so they are *)
(* held by value.                                                          *)
(***************************************************************************)
Fresh(h) == IF DOMAIN h = {} THEN 1 ELSE Max(DOMAIN h) + 1

NoHeap == [a \in {} |-> 0]

\* scene_analyzer.py:25-30
EmptyScene == [objects |-> <<>>, lights |-> <<>>, cameras |-> <<>>, metadata |-> <<>>]

\* what the tracker still refers to; the rest is garbage
Reachable(sa) ==
    ({sa.current_scene} \cup {sa.scene_history[i].snapshot : i \in 1..Len(sa.scene_history)})
        \ {NoneRef}

Collect(h, sa) == [a \in (DOMAIN h \cap Reachable(sa)) |-> h[a]]

(***************************************************************************)
(* SceneAnalyzer (scene_analyzer.py).                                      *)
(***************************************************************************)
\* the global before startup: scene_analyzer = None
NoAnalyzer ==
    [exists |-> FALSE, current_scene |-> NoneRef, scene_history |-> <<>>,
     initialized |-> FALSE]

\* __init__
SceneAnalyzer_init ==
    [exists |-> TRUE, current_scene |-> NoneRef, scene_history |-> <<>>,
     initialized |-> FALSE]

\* initialize: a new empty scene dict, initialized = True
SceneAnalyzer_initialize(sa, h) ==
    LET a == Fresh(h)
    IN  [analyzer |-> [sa EXCEPT !.current_scene = a, !.initialized = TRUE],
         heap |-> (a :> EmptyScene) @@ h]

\* shutdown
SceneAnalyzer_shutdown(sa) ==
    [sa EXCEPT !.current_scene = NoneRef, !.scene_history = <<>>,
               !.initialized = FALSE]

\* if cat in scene_data: self.current_scene[cat] = {x["name"]: x for x in scene_data[cat]}
MergeCategory(h, cs, scene_data, cat) ==
    IF ~HasKey(scene_data, cat) THEN [raised |-> FALSE, err |-> "", heap |-> h]
    ELSE LET d == NameDict(scene_data[cat])
         IN  IF d.raised THEN [raised |-> TRUE, err |-> d.err, heap |-> h]
             ELSE [raised |-> FALSE, err |-> "",
                   heap |-> [h EXCEPT ![cs] =
                               [@ EXCEPT ![cat] = NameDictFrom(scene_data[cat], @)]]]
ReplaceCategory(h, cs, scene_data, cat) ==
    IF ~HasKey(scene_data, cat) THEN [raised |-> FALSE, err |-> "", heap |-> h]
    ELSE LET d == NameDict(scene_data[cat])
         IN  IF d.raised THEN [raised |-> TRUE, err |-> d.err, heap |-> h]
             ELSE [raised |-> FALSE, err |-> "",
                   heap |-> [h EXCEPT ![cs] = [@ EXCEPT ![cat] = d.val]]]

\* self.current_scene.copy(): a new dict with the same values
SnapshotAlias(h, cs) == [ref |-> cs, heap |-> h]
SnapshotCopy(h, cs) ==
    LET a == Fresh(h) IN [ref |-> a, heap |-> (a :> h[cs]) @@ h]

\* if len(history) > 100: history = history[-100:]
TrimKeepsOldest(history) ==
    IF Len(history) > HistoryLimit THEN SubSeq(history, 1, HistoryLimit) ELSE history
TrimHistory(history) ==
    IF Len(history) > HistoryLimit
    THEN SubSeq(history, Len(history) - HistoryLimit + 1, Len(history))
    ELSE history

\* update_scene_state: the statements in order; an exception leaves what the
\* statements before it have done
SceneAnalyzer_update_scene_state(sa, h, scene_data) ==
    IF ~sa.initialized
    THEN [raised |-> TRUE, err |-> "Scene Analyzer not initialized",
          analyzer |-> sa, heap |-> h]
    ELSE
      LET cs == sa.current_scene
          s1 == ReplaceCategory(h, cs, scene_data, "objects")
          s2 == IF s1.raised THEN s1 ELSE ReplaceCategory(s1.heap, cs, scene_data, "lights")
          s3 == IF s2.raised THEN s2 ELSE ReplaceCategory(s2.heap, cs, scene_data, "cameras")
      IN  IF s3.raised
          THEN [raised |-> TRUE, err |-> s3.err, analyzer |-> sa, heap |-> s3.heap]
          ELSE
            LET c == SnapshotCopy(s3.heap, cs)
                entry == [timestamp |-> Get(scene_data, "timestamp", 0),
                          snapshot |-> c.ref]
                sa2 == [sa EXCEPT !.scene_history = TrimHistory(Append(@, entry))]
            IN  [raised |-> FALSE, err |-> "", analyzer |-> sa2,
                 heap |-> Collect(c.heap, sa2)]

\* for radius in range(0, 10)
SearchRadii == 10

Abs(n) == IF n < 0 THEN -n ELSE n

\* the (x, z) pairs the two inner loops visit for one radius
Square(radius) == (-radius..radius) \X (-radius..radius)

\* the scan comes from the other end: x and z descending
LastInScanOrder(cells) ==
    CHOOSE c \in cells :
        \A d \in cells : c[1] > d[1] \/ (c[1] = d[1] /\ c[2] >= d[2])

\* the first pair of a set in the order of the loops: x ascending, then z
FirstInScanOrder(cells) ==
    CHOOSE c \in cells :
        \A d \in cells : c[1] < d[1] \/ (c[1] = d[1] /\ c[2] <= d[2])

\* the expanding grid search from radius on; [0.0, 0.0, 0.0] when it ends
RECURSIVE GridSearch(_, _)
GridSearch(occupied_positions, radius) ==
    IF radius >= SearchRadii THEN <<0, 0, 0>>
    ELSE LET free == Square(radius) \ occupied_positions
         IN  IF free = {} THEN GridSearch(occupied_positions, radius + 1)
             ELSE LET c == FirstInScanOrder(free)
                  IN  <<c[1] * 2 * 10, 0, c[2] * 2 * 10>>

\* obj.get("position", [0, 0, 0])
PositionOf(obj) == Get(obj, "position", <<0, 0, 0>>)

\* occupied_positions: (round(x), round(z)) of every object
OccupiedPositions(objects) ==
    { <<PyRound(PositionOf(objects[i].v)[1]), PyRound(PositionOf(objects[i].v)[3])>> :
        i \in 1..Len(objects) }

\* offsets.get(direction, [0, 0, 2])
DirectionOffset(direction) ==
    CASE direction = "front"  -> <<0, 0, 20>>
      [] direction = "behind" -> <<0, 0, -20>>
      [] direction = "left"   -> <<-20, 0, 0>>
      [] direction = "right"  -> <<20, 0, 0>>
      [] direction = "above"  -> <<0, 20, 0>>
      [] direction = "below"  -> <<0, -20, 0>>
      [] OTHER                -> <<0, 0, 20>>

\* find_free_position; reference_obj = "" stands for None (both are falsy)
SceneAnalyzer_find_free_position(sa, h, reference_obj, direction) ==
    IF sa.current_scene = NoneRef
    THEN Raised(0, "'NoneType' object is not subscriptable")
    ELSE LET objects == h[sa.current_scene].objects
         IN  IF reference_obj # "" /\ reference_obj \in DictKeys(objects)
             THEN LET ref_pos == PositionOf(DictGet(objects, reference_obj))
                      offset == DirectionOffset(direction)
                  IN  Returned(0, [position |-> <<ref_pos[1] + offset[1],
                                                  ref_pos[2] + offset[2],
                                                  ref_pos[3] + offset[3]>>])
             ELSE Returned(0, [position |-> GridSearch(OccupiedPositions(objects), 0)])

(***************************************************************************)
(* DecisionEngine tables (decision_engine.py).                             *)
(***************************************************************************)
\* _load_rules
LoadedRules ==
    [placement |->
        [chair  |-> [default_height |-> 0, preferred_grouping |-> TRUE,
                     relation_to_table |-> "around"],
         table  |-> [default_height |-> 0, preferred_grouping |-> TRUE,
                     acts_as_center |-> TRUE],
         light  |-> [default_height |-> 20,
                     recommended_count |-> [min |-> 1, max |-> 5],
                     spacing |-> 30],
         camera |-> [default_height |-> 15, recommended_distance |-> 50,
                     look_at_center |-> TRUE]],
     composition |-> [rule_of_thirds |-> TRUE, golden_ratio |-> TRUE,
                      leading_lines |-> TRUE],
     lighting |-> [three_point_minimum |-> TRUE, key_light_intensity |-> 15,
                   fill_light_intensity |-> 7, back_light_intensity |-> 10]]

\* _load_templates
LoadedTemplates ==
    [living_room |->
        [objects |-> << [type |-> "sofa", position |-> <<0, 0, -20>>],
                        [type |-> "coffee_table", position |-> <<0, 0, 0>>],
                        [type |-> "chair", position |-> <<-20, 0, 0>>],
                        [type |-> "chair", position |-> <<20, 0, 0>>] >>,
         lights  |-> << [type |-> "key_light", position |-> <<30, 30, 30>>],
                        [type |-> "fill_light", position |-> <<-20, 20, 20>>] >>,
         cameras |-> << [type |-> "wide_shot", position |-> <<0, 20, 80>>] >>],
     dramatic_lighting |->
        [lights |-> << [type |-> "key_light", position |-> <<40, 40, 40>>,
                        intensity |-> 20, color |-> <<10, 8, 6>>],
                       [type |-> "fill_light", position |-> <<-20, 20, 20>>,
                        intensity |-> 5],
                       [type |-> "back_light", position |-> <<0, 30, -40>>,
                        intensity |-> 15] >>]]

\* {} : the tables before initialize and after shutdown
NoTable == [k \in {} |-> 0]

NoDecisionEngine ==
    [exists |-> FALSE, rules |-> NoTable, templates |-> NoTable, initialized |-> FALSE]

\* __init__
DecisionEngine_init ==
    [exists |-> TRUE, rules |-> NoTable, templates |-> NoTable, initialized |-> FALSE]

\* initialize
DecisionEngine_initialize(de) ==
    [de EXCEPT !.rules = LoadedRules, !.templates = LoadedTemplates,
               !.initialized = TRUE]

\* shutdown
DecisionEngine_shutdown(de) ==
    [de EXCEPT !.rules = NoTable, !.templates = NoTable, !.initialized = FALSE]

(***************************************************************************)
(* NLPEngine lifecycle (nlp_engine.py).                                    *)
(***************************************************************************)
\* the same rows with those of the cameras and lights ahead of the general
\* ones
SpecificRowsFirst ==
    << [intent |-> "create_camera",
        patterns |-> <<"add camera", "create camera", "place camera">>],
       [intent |-> "modify_camera",
        patterns |-> <<"move camera", "rotate camera", "change camera">>],
       [intent |-> "create_light",
        patterns |-> <<"add light", "create light", "add lighting">>],
       [intent |-> "modify_light",
        patterns |-> <<"change light", "adjust light", "set light">>],
       [intent |-> "create_scene",
        patterns |-> <<"create scene", "make scene", "build scene">>],
       [intent |-> "create_object",
        patterns |-> <<"add", "create", "make", "place", "put">>],
       [intent |-> "modify_object",
        patterns |-> <<"move", "rotate", "scale", "change", "set", "adjust">>],
       [intent |-> "delete_object",
        patterns |-> <<"remove", "delete", "destroy">>],
       [intent |-> "save_scene",
        patterns |-> <<"save", "save scene", "store scene">>],
       [intent |-> "load_scene",
        patterns |-> <<"load", "load scene", "open scene">>] >>

\* _initialize_patterns: the dict in its insertion order
LoadedPatterns ==
    << [intent |-> "create_object",
        patterns |-> <<"add", "create", "make", "place", "put">>],
       [intent |-> "modify_object",
        patterns |-> <<"move", "rotate", "scale", "change", "set", "adjust">>],
       [intent |-> "delete_object",
        patterns |-> <<"remove", "delete", "destroy">>],
       [intent |-> "create_camera",
        patterns |-> <<"add camera", "create camera", "place camera">>],
       [intent |-> "modify_camera",
        patterns |-> <<"move camera", "rotate camera", "change camera">>],
       [intent |-> "create_light",
        patterns |-> <<"add light", "create light", "add lighting">>],
       [intent |-> "modify_light",
        patterns |-> <<"change light", "adjust light", "set light">>],
       [intent |-> "create_scene",
        patterns |-> <<"create scene", "make scene", "build scene">>],
       [intent |-> "save_scene",
        patterns |-> <<"save", "save scene", "store scene">>],
       [intent |-> "load_scene",
        patterns |-> <<"load", "load scene", "open scene">>] >>

NoNLPEngine ==
    [exists |-> FALSE, nlp |-> FALSE, command_patterns |-> <<>>, initialized |-> FALSE]

\* __init__ : nlp = None, command_patterns = {}
NLPEngine_init ==
    [exists |-> TRUE, nlp |-> FALSE, command_patterns |-> <<>>, initialized |-> FALSE]

\* initialize: nlp is the spaCy pipeline when spaCy and its model are
\* installed (spacy_model), None otherwise
NLPEngine_initialize(ne, spacy_model) ==
    [ne EXCEPT !.nlp = spacy_model, !.command_patterns = LoadedPatterns,
               !.initialized = TRUE]

\* shutdown: the patterns stay
NLPEngine_shutdown(ne) == [ne EXCEPT !.nlp = FALSE, !.initialized = FALSE]

(***************************************************************************)
(* Python str methods.                                                     *)
(***************************************************************************)
\* the lower-case letter of each upper-case letter
ToLower ==
    [A |-> "a", B |-> "b", C |-> "c", D |-> "d", E |-> "e", F |-> "f", G |-> "g",
     H |-> "h", I |-> "i", J |-> "j", K |-> "k", L |-> "l", M |-> "m", N |-> "n",
     O |-> "o", P |-> "p", Q |-> "q", R |-> "r", S |-> "s", T |-> "t", U |-> "u",
     V |-> "v", W |-> "w", X |-> "x", Y |-> "y", Z |-> "z"]

LowerChar(c) == IF c \in DOMAIN ToLower THEN ToLower[c] ELSE c

\* str.lower()
RECURSIVE Lower(_)
Lower(str) == IF str = "" THEN "" ELSE LowerChar(Head(str)) \o Lower(Tail(str))

IsSpace(c) == c \in {" ", "\t", "\n", "\r"}

\* str.strip()
RECURSIVE LStrip(_)
LStrip(str) ==
    IF str # "" /\ IsSpace(Head(str)) THEN LStrip(Tail(str)) ELSE str

RECURSIVE RStrip(_)
RStrip(str) ==
    IF str # "" /\ IsSpace(SubSeq(str, Len(str), Len(str)))
    THEN RStrip(SubSeq(str, 1, Len(str) - 1))
    ELSE str

Strip(str) == RStrip(LStrip(str))

\* pattern in text
Contains(text, pattern) ==
    \E i \in 0..(Len(text) - Len(pattern)) : SubSeq(text, i + 1, i + Len(pattern)) = pattern

\* text.startswith(prefix)
StartsWith(text, prefix) ==
    Len(prefix) <= Len(text) /\ SubSeq(text, 1, Len(prefix)) = prefix

\* the maximal runs of non-whitespace characters of str from position i on,
\* each with the offset of its first character; cur is the run being read
RECURSIVE SplitFrom(_, _, _, _)
SplitFrom(str, i, cur, acc) ==
    LET closed == IF cur = "" THEN acc
                  ELSE Append(acc, [text |-> cur, start |-> i - 1 - Len(cur)])
    IN  IF i > Len(str) THEN closed
        ELSE IF IsSpace(SubSeq(str, i, i)) THEN SplitFrom(str, i + 1, "", closed)
        ELSE SplitFrom(str, i + 1, cur \o SubSeq(str, i, i), acc)

\* str.split(): the words between runs of whitespace
Split(str) ==
    LET runs == SplitFrom(str, 1, "", <<>>)
    IN  [i \in 1..Len(runs) |-> runs[i].text]

(***************************************************************************)
(* NLPEngine.parse_command (nlp_engine.py).                                *)
(***************************************************************************)
\* _create_fallback_token: verb_words
VerbWords == {"add", "create", "make", "move", "rotate", "scale", "remove", "delete"}

\* _create_fallback_token(text, index)
FallbackToken(text, index) ==
    [text |-> text,
     pos_ |-> IF Lower(text) \in VerbWords THEN "VERB" ELSE "",
     lemma_ |-> Lower(text),
     dep_ |-> "",
     idx |-> index,
     head_text |-> ""]

\* _create_fallback_doc(text, tokens): enumerate(tokens) counts from 0
FallbackDoc(text, tokens) ==
    [text |-> text, ents |-> <<>>,
     tokens |-> [i \in 1..Len(tokens) |-> FallbackToken(tokens[i], i - 1)]]

\* the inflected verbs spaCy reduces to a lemma, in the "tagged" analysis
Lemmas == [made |-> "make", moving |-> "move", removing |-> "remove", built |-> "build"]

\* self.nlp(lower): the document spaCy returns.  spaCy is not part of the
\* repository: its analysis is an input.  "untagged" is a document with no
\* part-of-speech tag and no dependency; "tagged" tags the verbs of
\* VerbWords and of Lemmas, gives the latter their lemma, and makes the word
\* after "of" (and after "of the") a pobj of "of".  Token idx is the
\* character offset.
SpacyDoc(text, analysis) ==
    LET runs == SplitFrom(text, 1, "", <<>>)
        IsPobj(i) == \/ (i > 1 /\ runs[i - 1].text = "of" /\ runs[i].text # "the")
                     \/ (i > 2 /\ runs[i - 2].text = "of" /\ runs[i - 1].text = "the")
    IN  [text |-> text, ents |-> <<>>,
         tokens |-> [i \in 1..Len(runs) |->
            [text |-> runs[i].text,
             pos_ |-> IF analysis = "tagged"
                         /\ runs[i].text \in VerbWords \cup DOMAIN Lemmas
                      THEN "VERB" ELSE "",
             lemma_ |-> IF analysis = "tagged" /\ runs[i].text \in DOMAIN Lemmas
                        THEN Lemmas[runs[i].text] ELSE runs[i].text,
             dep_ |-> IF analysis = "tagged" /\ IsPobj(i) THEN "pobj" ELSE "",
             idx |-> runs[i].start,
             head_text |-> IF analysis = "tagged" /\ IsPobj(i) THEN "of" ELSE ""]]]

\* the smallest index of a sequence that satisfies a test (a set of indices)
First(indices) == CHOOSE i \in indices : \A j \in indices : i <= j
Last(indices) == CHOOSE i \in indices : \A j \in indices : j <= i

\* _extract_intent with the scan keeping the last row that matches
LastMatchWins(command_patterns, doc) ==
    LET text == doc.text
        hits == { i \in 1..Len(command_patterns) :
                    \E j \in 1..Len(command_patterns[i].patterns) :
                        Contains(text, command_patterns[i].patterns[j]) }
    IN  IF hits # {} THEN command_patterns[Last(hits)].intent ELSE "unknown"

\* _extract_intent
extract_intent(command_patterns, doc) ==
    LET text == doc.text
        hits == { i \in 1..Len(command_patterns) :
                    \E j \in 1..Len(command_patterns[i].patterns) :
                        Contains(text, command_patterns[i].patterns[j]) }
        verbs == { i \in 1..Len(doc.tokens) : doc.tokens[i].pos_ = "VERB" }
    IN  IF hits # {} THEN command_patterns[First(hits)].intent
        ELSE IF verbs = {} THEN "unknown"
        ELSE LET verb == doc.tokens[First(verbs)].lemma_
             IN  IF verb \in {"add", "create", "make"} THEN "create_object"
                 ELSE IF verb \in {"move", "rotate", "scale"} THEN "modify_object"
                 ELSE IF verb \in {"remove", "delete"} THEN "delete_object"
                 ELSE "unknown"

\* _extract_entities: object_types
ObjectTypes == {"cube", "sphere", "pyramid", "chair", "table", "camera", "light"}

\* a subsequence: the elements of seq whose index satisfies keep
RECURSIVE SelectIndices(_, _, _)
SelectIndices(seq, keep, i) ==
    IF i > Len(seq) THEN <<>>
    ELSE (IF i \in keep THEN <<seq[i]>> ELSE <<>>) \o SelectIndices(seq, keep, i + 1)

\* _extract_entities
extract_entities(doc) ==
    LET typed == [i \in 1..Len(doc.tokens) |->
                    [text |-> doc.tokens[i].text, type |-> "OBJECT_TYPE",
                     start |-> doc.tokens[i].idx,
                     end |-> doc.tokens[i].idx + Len(doc.tokens[i].text)]]
    IN  doc.ents \o
        SelectIndices(typed, {i \in 1..Len(typed) : typed[i].text \in ObjectTypes}, 1)

\* _extract_parameters: position_words
PositionWords ==
    [front |-> [z |-> 10], behind |-> [z |-> -10], left |-> [x |-> -10],
     right |-> [x |-> 10], above |-> [y |-> 10], below |-> [y |-> -10]]

\* position_hint.update(...) for the tokens from i on
RECURSIVE PositionHintFrom(_, _, _)
PositionHintFrom(tokens, i, hint) ==
    IF i > Len(tokens) THEN hint
    ELSE IF tokens[i].text \in DOMAIN PositionWords
         THEN PositionHintFrom(tokens, i + 1, PositionWords[tokens[i].text] @@ hint)
         ELSE PositionHintFrom(tokens, i + 1, hint)

\* _extract_parameters: each loop assigns again, so the last match stays
extract_parameters(doc, entities) ==
    LET typed == {i \in 1..Len(entities) : entities[i].type = "OBJECT_TYPE"}
        placed == {i \in 1..Len(doc.tokens) : doc.tokens[i].text \in DOMAIN PositionWords}
        pobjs == {i \in 1..Len(doc.tokens) :
                     doc.tokens[i].dep_ = "pobj" /\ doc.tokens[i].head_text = "of"}
        p1 == IF typed = {} THEN NoArgs
              ELSE [object_type |-> entities[Last(typed)].text]
        p2 == IF placed = {} THEN NoArgs
              ELSE [position_hint |-> PositionHintFrom(doc.tokens, 1, NoArgs)]
        p3 == IF pobjs = {} THEN NoArgs
              ELSE [relative_to |-> doc.tokens[Last(pobjs)].text]
    IN  p1 @@ p2 @@ p3

\* parse_command from the document on
parse_document(ne, command, doc) ==
    LET entities == extract_entities(doc)
    IN  Returned(0, [intent |-> extract_intent(ne.command_patterns, doc),
                     entities |-> entities,
                     parameters |-> extract_parameters(doc, entities),
                     original_command |-> command,
                     tokens |-> [i \in 1..Len(doc.tokens) |-> doc.tokens[i].text]])

\* parse_command; analysis is what spaCy does when self.nlp is loaded
NLPEngine_parse_command(ne, command, analysis) ==
    IF ~ne.initialized THEN Raised(0, "NLP Engine not initialized")
    ELSE IF ne.nlp /\ analysis = "raise"
    THEN Returned(0, [intent |-> "unknown", entities |-> <<>>, parameters |-> NoArgs,
                      original_command |-> command, error |-> "spaCy pipeline error"])
    ELSE IF ne.nlp
    THEN parse_document(ne, command, SpacyDoc(Lower(command), analysis))
    ELSE parse_document(ne, command, FallbackDoc(Lower(command), Split(Lower(command))))

\* generate_suggestions: suggestions
StaticSuggestions ==
    << "Add a camera in front of character",
       "Add dramatic lighting to the scene",
       "Create a living room with furniture",
       "Move the chair to the left of the table",
       "Add a table in the center",
       "Place a light above the character" >>

\* seq[:n]
Take(seq, n) == SubSeq(seq, 1, IF Len(seq) < n THEN Len(seq) ELSE n)

\* generate_suggestions
NLPEngine_generate_suggestions(partial_command) ==
    LET kept == IF partial_command # ""
                THEN SelectIndices(StaticSuggestions,
                        {i \in 1..Len(StaticSuggestions) :
                            Contains(Lower(StaticSuggestions[i]), Lower(partial_command))}, 1)
                ELSE StaticSuggestions
    IN  Take(kept, 5)

(***************************************************************************)
(* OllamaClient lifecycle (ollama_client.py).                              *)
(***************************************************************************)
NoOllamaClient == [exists |-> FALSE, initialized |-> FALSE]

\* initialize: initialized = True when the server answers and the model is
\* there or can be pulled; any exception leaves initialized = False
OllamaClient_initialize(reachable) == [exists |-> TRUE, initialized |-> reachable]

\* shutdown
OllamaClient_shutdown(oc) == [oc EXCEPT !.initialized = FALSE]

\* __init__(model=...): main.py passes OLLAMA_MODEL, default "llama3:latest"
OllamaModel == "llama3:latest"

\* What self.client.chat does is an input, the reply of the server:
\*   [kind |-> "raise"]      the call raises (server unreachable, timeout)
\*   [kind |-> "prose"]      text that holds no JSON, no brace and no bracket
\*   [kind |-> "truncated"]  text whose opening brace (for parse_command) or
\*                           bracket (for generate_suggestions) is never closed
\*   [kind |-> "object", value |-> d]   the JSON object d and nothing else
\*   [kind |-> "list", value |-> l]     the JSON array l and nothing else
\* parse_command
OllamaClient_parse_command(oc, command, reply) ==
    IF ~oc.initialized THEN Raised(0, "Ollama client not initialized")
    ELSE CASE reply.kind = "raise" -> Raised(0, "Failed to connect to Ollama")
           \* llm_response.rindex('}') raises ValueError, which the handler
           \* of json.JSONDecodeError does not catch
           [] reply.kind = "truncated" -> Raised(0, "substring not found")
           \* no '{': json.loads of the array succeeds, and
           \* result['original_command'] = command raises TypeError
           [] reply.kind = "list" ->
                Raised(0, "list indices must be integers or slices, not str")
           [] reply.kind = "prose" ->
                Returned(0, [intent |-> "unknown", original_command |-> command,
                             error |-> "Failed to parse LLM response",
                             raw_response |-> "prose"])
           [] reply.kind = "object" ->
                Returned(0, [original_command |-> command, llm_used |-> OllamaModel]
                            @@ reply.value)

\* generate_suggestions: the list returned on a parse error
OllamaDefaultSuggestions ==
    << "Add a camera in front of character",
       "Create a living room with furniture",
       "Add dramatic lighting",
       "Move the object to the left",
       "Add a table in the center" >>

\* generate_suggestions
OllamaClient_generate_suggestions(oc, partial_command, reply) ==
    IF ~oc.initialized THEN <<>>
    ELSE CASE reply.kind = "raise" -> <<>>
           \* no '[' : json.loads raises JSONDecodeError
           [] reply.kind = "prose" -> OllamaDefaultSuggestions
           \* rindex(']') raises ValueError, caught by the inner handler
           [] reply.kind = "truncated" -> OllamaDefaultSuggestions
           [] reply.kind = "list" -> Take(reply.value, 5)
           \* suggestions[:5] on a dict raises, caught by the outer handler
           [] reply.kind = "object" -> <<>>

(***************************************************************************)
(* DecisionEngine.make_decision (decision_engine.py).  A context value     *)
(* that is a str where the code expects a dict is the record               *)
(* [py_str |-> s].                                                         *)
(***************************************************************************)
\* a handler's result, or the exception it raised
Decided(actions, reasoning) ==
    [raised |-> FALSE, val |-> [actions |-> actions, reasoning |-> reasoning]]
HandlerRaised(err) == [raised |-> TRUE, err |-> err]

\* _decide_object_creation with the placement rule's height left out
CreateAtOrigin(de, context) ==
    Decided(<< [type |-> "create_object",
                object_type |-> Get(context, "object_type", "cube"),
                position |-> <<0, 0, 0>>,
                rotation |-> <<0, 0, 0>>,
                scale |-> <<10, 10, 10>>] >>,
            "Creating " \o Get(context, "object_type", "cube") \o " at optimal position")

\* _decide_object_creation
decide_object_creation(de, context) ==
    LET object_type == Get(context, "object_type", "cube")
        rules == Get(de.rules.placement, object_type, NoArgs)
        base == <<0, Get(rules, "default_height", 0), 0>>
        position_hint == Get(context, "position_hint", NoArgs)
    IN  IF HasKey(context, "relative_to") /\ HasKey(position_hint, "py_str")
        THEN HandlerRaised("'str' object has no attribute 'get'")
        ELSE Decided(
               << [type |-> "create_object",
                   object_type |-> object_type,
                   position |-> IF HasKey(context, "relative_to")
                                THEN <<base[1] + Get(position_hint, "x", 0) * 2,
                                       base[2],
                                       base[3] + Get(position_hint, "z", 0) * 2>>
                                ELSE base,
                   rotation |-> <<0, 0, 0>>,
                   scale |-> <<10, 10, 10>>] >>,
               "Creating " \o object_type \o " at optimal position")

\* _decide_object_modification
decide_object_modification(de, context) ==
    Decided(<< [type |-> "modify_object",
                object_name |-> Get(context, "object_name", "None"),
                property |-> Get(context, "property", "position"),
                value |-> Get(context, "value", <<0, 0, 0>>)] >>,
            "Modifying object as requested")

\* _decide_camera_placement
decide_camera_placement(de, context) ==
    LET camera_rules == de.rules.placement.camera
        distance == camera_rules.recommended_distance
        height == camera_rules.default_height
    IN  Decided(<< [type |-> "create_camera", position |-> <<0, height, distance>>,
                    look_at |-> <<0, 0, 0>>, fov |-> 500] >>,
                "Placing camera for optimal framing")

\* _decide_light_placement
decide_light_placement(de, context) ==
    LET light_template == Get(context, "template", "three_point")
    IN  IF HasKey(de.templates, light_template)
        THEN LET lights == Get(de.templates[light_template], "lights", <<>>)
             IN  Decided([i \in 1..Len(lights) |->
                            [type |-> "create_light",
                             light_type |-> lights[i].type,
                             position |-> lights[i].position,
                             intensity |-> Get(lights[i], "intensity", 10),
                             color |-> Get(lights[i], "color", <<10, 10, 10>>)]],
                         "Applied " \o light_template \o " lighting template")
        ELSE Decided(<< [type |-> "create_light", light_type |-> "directional",
                         position |-> <<20, 20, 20>>, intensity |-> 10,
                         color |-> <<10, 10, 10>>] >>,
                     "Creating default directional light")

\* _decide_scene_creation with the lights emitted before the objects
SceneLightsFirst(de, context) ==
    LET scene_type == Get(context, "scene_type", "living_room")
    IN  IF HasKey(de.templates, scene_type)
        THEN LET template == de.templates[scene_type]
                 objects == Get(template, "objects", <<>>)
                 lights == Get(template, "lights", <<>>)
                 cameras == Get(template, "cameras", <<>>)
             IN  Decided(
                   [i \in 1..Len(lights) |->
                      [type |-> "create_light", light_type |-> lights[i].type,
                       position |-> lights[i].position]]
                   \o [i \in 1..Len(objects) |->
                      [type |-> "create_object", object_type |-> objects[i].type,
                       position |-> objects[i].position]]
                   \o [i \in 1..Len(cameras) |->
                      [type |-> "create_camera", position |-> cameras[i].position]],
                   "Applied " \o scene_type \o " scene template")
        ELSE Decided(<<>>, "Template " \o scene_type \o " not found")

\* _decide_scene_creation
decide_scene_creation(de, context) ==
    LET scene_type == Get(context, "scene_type", "living_room")
    IN  IF HasKey(de.templates, scene_type)
        THEN LET template == de.templates[scene_type]
                 objects == Get(template, "objects", <<>>)
                 lights == Get(template, "lights", <<>>)
                 cameras == Get(template, "cameras", <<>>)
             IN  Decided(
                   [i \in 1..Len(objects) |->
                      [type |-> "create_object", object_type |-> objects[i].type,
                       position |-> objects[i].position]]
                   \o [i \in 1..Len(lights) |->
                      [type |-> "create_light", light_type |-> lights[i].type,
                       position |-> lights[i].position]]
                   \o [i \in 1..Len(cameras) |->
                      [type |-> "create_camera", position |-> cameras[i].position]],
                   "Applied " \o scene_type \o " scene template")
        ELSE Decided(<<>>, "Template " \o scene_type \o " not found")

\* make_decision without its first check: with no tables loaded the lookup
\* of a rule fails inside the try block and comes back as an error result
DecideWithoutGate(de, intent, context) ==
    IF ~de.initialized THEN Returned(0, [actions |-> <<>>, error |-> "'placement'"])
    ELSE LET d == CASE intent = "create_object" -> decide_object_creation(de, context)
                    [] intent = "modify_object" -> decide_object_modification(de, context)
                    [] intent = "create_camera" -> decide_camera_placement(de, context)
                    [] intent = "create_light" -> decide_light_placement(de, context)
                    [] intent = "create_scene" -> decide_scene_creation(de, context)
                    [] OTHER -> Decided(<<>>, "Unknown intent")
         IN  IF d.raised THEN Returned(0, [actions |-> <<>>, error |-> d.err])
             ELSE Returned(0, d.val)

\* make_decision with one more row in the dispatch: delete_object
DispatchWithDelete(de, intent, context) ==
    IF ~de.initialized THEN Raised(0, "Decision Engine not initialized")
    ELSE LET d == CASE intent = "create_object" -> decide_object_creation(de, context)
                    [] intent = "modify_object" -> decide_object_modification(de, context)
                    [] intent = "delete_object" ->
                         Decided(<< [type |-> "delete_object",
                                     object_name |-> Get(context, "object_name", "None")] >>,
                                 "Deleting object as requested")
                    [] intent = "create_camera" -> decide_camera_placement(de, context)
                    [] intent = "create_light" -> decide_light_placement(de, context)
                    [] intent = "create_scene" -> decide_scene_creation(de, context)
                    [] OTHER -> Decided(<<>>, "Unknown intent")
         IN  IF d.raised THEN Returned(0, [actions |-> <<>>, error |-> d.err])
             ELSE Returned(0, d.val)

\* make_decision: the dispatch, and what it makes of a handler's exception
DecisionEngine_make_decision(de, intent, context) ==
    IF ~de.initialized THEN Raised(0, "Decision Engine not initialized")
    ELSE LET d == CASE intent = "create_object" -> decide_object_creation(de, context)
                    [] intent = "modify_object" -> decide_object_modification(de, context)
                    [] intent = "create_camera" -> decide_camera_placement(de, context)
                    [] intent = "create_light" -> decide_light_placement(de, context)
                    [] intent = "create_scene" -> decide_scene_creation(de, context)
                    [] OTHER -> Decided(<<>>, "Unknown intent")
         IN  IF d.raised THEN Returned(0, [actions |-> <<>>, error |-> d.err])
             ELSE Returned(0, d.val)

(***************************************************************************)
(* POST /command (api.process_command).                                    *)
(***************************************************************************)
\* CommandRequest.validate_command: max 1000 characters
MaxCommandLength == 1000

\* {**b, **a}: on a key of both, the value of a stays
MergeParsedWins(a, b) == a @@ b

\* {**a, **b}: the keys of b win
Merge(a, b) == b @@ a

\* process_command made to look at the tracker: the reasoning mentions the
\* objects the scene analyzer holds
ProcessWithTracker(oc, ne, de, raw_command, scene_state, env) ==
    IF raw_command = "" \/ Strip(raw_command) = ""
    THEN Raised(422, "Command cannot be empty")
    ELSE IF ~ne.exists \/ ~de.exists
    THEN Raised(500, "'NoneType' object has no attribute 'parse_command'")
    ELSE
      LET command == Strip(raw_command)
          parsed == NLPEngine_parse_command(ne, command, env.analysis)
          decision == IF parsed.raised THEN parsed
                      ELSE DecisionEngine_make_decision(de,
                              Get(parsed.body, "intent", "unknown"),
                              Merge(Get(parsed.body, "parameters", NoArgs), scene_state))
          crowded == /\ scene_analyzer.initialized
                     /\ heap[scene_analyzer.current_scene].objects # <<>>
      IN  IF decision.raised THEN Raised(500, decision.body.detail)
          ELSE Returned(200,
                 [success |-> TRUE,
                  message |-> Get(decision.body, "reasoning", "Command processed")
                              \o (IF crowded THEN " among the scene's objects" ELSE ""),
                  actions |-> Get(decision.body, "actions", <<>>),
                  suggestions |-> NLPEngine_generate_suggestions(command)])

\* process_command on the globals (oc, ne, de).  scene_state = NoArgs stands
\* for None and for {} (both are falsy).  env is what the outside does during
\* the call: llm_parse and llm_suggest are the replies of the Ollama server to
\* the two chat calls, analysis is spaCy's analysis.
process_command(oc, ne, de, raw_command, scene_state, env) ==
    IF raw_command = "" \/ Strip(raw_command) = ""
    THEN Raised(422, "Command cannot be empty")
    ELSE IF Len(raw_command) > MaxCommandLength
    THEN Raised(422, "Command too long (max 1000 characters)")
    ELSE
      LET command == Strip(raw_command)
          use_ollama == oc.exists /\ oc.initialized
          parsed == IF use_ollama
                    THEN OllamaClient_parse_command(oc, command, env.llm_parse)
                    ELSE IF ~ne.exists
                    THEN Raised(0, "'NoneType' object has no attribute 'parse_command'")
                    ELSE NLPEngine_parse_command(ne, command, env.analysis)
      IN  IF parsed.raised THEN Raised(500, parsed.body.detail)
          ELSE
            LET decision ==
                    IF ~de.exists
                    THEN Raised(0, "'NoneType' object has no attribute 'make_decision'")
                    ELSE DecisionEngine_make_decision(de,
                            Get(parsed.body, "intent", "unknown"),
                            Merge(Get(parsed.body, "parameters", NoArgs), scene_state))
            IN  IF decision.raised THEN Raised(500, decision.body.detail)
                ELSE
                  LET suggestions ==
                          IF use_ollama
                          THEN OllamaClient_generate_suggestions(oc, command, env.llm_suggest)
                          ELSE NLPEngine_generate_suggestions(command)
                  IN  Returned(200,
                        [success |-> TRUE,
                         message |-> Get(decision.body, "reasoning", "Command processed"),
                         actions |-> Get(decision.body, "actions", <<>>),
                         suggestions |-> suggestions])

(***************************************************************************)
(* SceneAnalyzer queries (scene_analyzer.py).                              *)
(***************************************************************************)
\* dict.get(name): None, or the value found
NoneFound == [found |-> FALSE]

Found(obj) == [found |-> TRUE, obj |-> obj]

\* get_object_by_name
SceneAnalyzer_get_object_by_name(sa, h, name) ==
    IF sa.current_scene = NoneRef
    THEN Raised(0, "'NoneType' object is not subscriptable")
    ELSE LET objects == h[sa.current_scene].objects
         IN  Returned(0, IF name \in DictKeys(objects)
                         THEN Found(DictGet(objects, name)) ELSE NoneFound)

\* get_objects_by_type: the values in insertion order whose "type" is
\* object_type
SceneAnalyzer_get_objects_by_type(sa, h, object_type) ==
    IF sa.current_scene = NoneRef
    THEN Raised(0, "'NoneType' object is not subscriptable")
    ELSE LET objects == h[sa.current_scene].objects
             RECURSIVE Matching(_, _)
             Matching(lo, hi) ==
                 IF lo > hi THEN <<>>
                 ELSE IF lo = hi
                 THEN (IF HasKey(objects[lo].v, "type")
                          /\ objects[lo].v.type = object_type
                       THEN <<objects[lo].v>> ELSE <<>>)
                 ELSE Matching(lo, (lo + hi) \div 2)
                      \o Matching((lo + hi) \div 2 + 1, hi)
         IN  Returned(0, [objects |-> Matching(1, Len(objects))])

\* the sum of the three coordinate differences instead
ManhattanDistance(pos1, pos2) ==
    Abs(pos1[1] - pos2[1]) + Abs(pos1[2] - pos2[2]) + Abs(pos1[3] - pos2[3])

\* _calculate_distance, squared: math.sqrt is increasing and the distances
\* are only compared with each other, so the square stands for the distance
calculate_distance(pos1, pos2) ==
    (pos1[1] - pos2[1]) * (pos1[1] - pos2[1])
    + (pos1[2] - pos2[2]) * (pos1[2] - pos2[2])
    + (pos1[3] - pos2[3]) * (pos1[3] - pos2[3])

\* get_nearest_object: the loop over the values lo..hi in insertion order,
\* from the state <<min_distance, nearest>> on; nearest is the index of
\* nearest_obj, 0 while it is None and min_distance is inf
SceneAnalyzer_get_nearest_object(sa, h, position) ==
    IF sa.current_scene = NoneRef
    THEN Raised(0, "'NoneType' object is not subscriptable")
    ELSE LET objects == h[sa.current_scene].objects
             RECURSIVE Scan(_, _, _)
             Scan(lo, hi, state) ==
                 IF lo > hi THEN state
                 ELSE IF lo = hi
                 THEN LET distance == calculate_distance(position,
                                                         PositionOf(objects[lo].v))
                      IN  IF state[2] = 0 \/ distance < state[1]
                          THEN <<distance, lo>> ELSE state
                 ELSE LET first == Scan(lo, (lo + hi) \div 2, state)
                      IN  IF first[2] = 0 THEN Scan((lo + hi) \div 2 + 1, hi, state)
                          ELSE Scan((lo + hi) \div 2 + 1, hi, first)
             nearest_obj == Scan(1, Len(objects), <<0, 0>>)[2]
         IN  Returned(0, IF nearest_obj = 0 THEN NoneFound
                         ELSE Found(objects[nearest_obj].v))

\* _analyze_balance: abs(total / count) < 1.0, in tenths
analyze_balance(objects) ==
    LET RECURSIVE Total(_, _, _)
        Total(lo, hi, axis) ==
            IF lo > hi THEN 0
            ELSE IF lo = hi THEN PositionOf(objects[lo].v)[axis]
            ELSE Total(lo, (lo + hi) \div 2, axis)
                 + Total((lo + hi) \div 2 + 1, hi, axis)
        count == Len(objects)
    IN  IF count = 0 THEN "empty"
        ELSE IF Abs(Total(1, count, 1)) < 10 * count
                /\ Abs(Total(1, count, 3)) < 10 * count
        THEN "balanced"
        ELSE "unbalanced"

\* _analyze_lighting with the three-point bracket starting at three lights
LightingByThree(lights) ==
    LET light_count == Len(lights)
    IN  IF light_count = 0 THEN "dark"
        ELSE IF light_count <= 2 THEN "single_light"
        ELSE IF light_count = 3 THEN "three_point"
        ELSE "complex"

\* _analyze_lighting
analyze_lighting(lights) ==
    LET light_count == Len(lights)
    IN  IF light_count = 0 THEN "dark"
        ELSE IF light_count = 1 THEN "single_light"
        ELSE IF light_count <= 3 THEN "three_point"
        ELSE "complex"

\* analyze_scene_composition
SceneAnalyzer_analyze_scene_composition(sa, h) ==
    IF sa.current_scene = NoneRef
    THEN Raised(0, "'NoneType' object is not subscriptable")
    ELSE LET scene == h[sa.current_scene]
             light_count == Len(scene.lights)
             camera_count == Len(scene.cameras)
         IN  Returned(0,
                 [object_count |-> Len(scene.objects),
                  light_count |-> light_count,
                  camera_count |-> camera_count,
                  balance |-> analyze_balance(scene.objects),
                  lighting_quality |-> analyze_lighting(scene.lights),
                  suggestions |->
                     (IF light_count = 0 THEN <<"Add lighting to the scene">> ELSE <<>>)
                     \o (IF camera_count = 0
                         THEN <<"Add a camera to frame the scene">> ELSE <<>>)])

(***************************************************************************)
(* Scene items and update payloads the engine may send.                    *)
(***************************************************************************)
ObjA == [name |-> "a", type |-> "chair", position |-> <<0, 0, 0>>]
ObjB == [name |-> "b", type |-> "table", position |-> <<-20, 0, -20>>]
\* "a" again, elsewhere: (2.5, 0, 0.5)
ObjA2 == [name |-> "a", type |-> "chair", position |-> <<25, 0, 5>>]
ObjNoName == [type |-> "cube", position |-> <<20, 0, 0>>]
LightKey == [name |-> "key", type |-> "key_light", position |-> <<30, 30, 30>>]
LightFill == [name |-> "fill", type |-> "fill_light", position |-> <<-20, 20, 20>>]
LightNoName == [type |-> "key_light", position |-> <<30, 30, 30>>]
CamMain == [name |-> "cam", position |-> <<0, 20, 80>>, fov |-> 500]
CamNoName == [position |-> <<0, 20, 80>>]

\* bodies of POST /scene/update (SceneStateUpdate: all four fields required)
ApiPayloads ==
    { [objects |-> <<ObjA, ObjB>>, lights |-> <<LightKey>>, cameras |-> <<CamMain>>,
       timestamp |-> 10],
      [objects |-> <<ObjA2>>, lights |-> <<>>, cameras |-> <<>>, timestamp |-> 20],
      [objects |-> <<ObjB>>, lights |-> <<LightNoName>>, cameras |-> <<CamMain>>,
       timestamp |-> 30],
      [objects |-> <<ObjNoName>>, lights |-> <<LightFill>>, cameras |-> <<>>,
       timestamp |-> 40],
      [objects |-> <<ObjB>>, lights |-> <<LightFill>>, cameras |-> <<CamNoName>>,
       timestamp |-> 50],
      [objects |-> <<ObjA>>, lights |-> [i \in 1..(MaxItems + 1) |-> LightKey],
       cameras |-> <<>>, timestamp |-> 60] }

\* scene_data of a direct SceneAnalyzer.update_scene_state call: any key may
\* be absent
TrackerDeltas ==
    { [lights |-> <<LightFill>>],
      [objects |-> <<ObjB>>, timestamp |-> 70] }

(***************************************************************************)
(* Initial state: the module globals of main.py, all None.                 *)
(***************************************************************************)
Init ==
    /\ ollama_client = NoOllamaClient
    /\ nlp_engine = NoNLPEngine
    /\ scene_analyzer = NoAnalyzer
    /\ decision_engine = NoDecisionEngine
    /\ heap = NoHeap
    /\ request = [op |-> "none", args |-> NoArgs]
    /\ response = Returned(0, NoArgs)
    /\ applied = <<>>
    /\ nUpdateCalls = 0

(***************************************************************************)
(* Lifecycle (main.py).                                                    *)
(***************************************************************************)
\* startup_event.  ollama is "absent" (the constructor raised: the global
\* stays None), "down" (initialize caught its error) or "ready".
StartupWith(ollama, spacy_model) ==
    /\ ~scene_analyzer.exists
    /\ ollama_client' = IF ollama = "absent" THEN NoOllamaClient
                        ELSE OllamaClient_initialize(ollama = "ready")
    /\ nlp_engine' = NLPEngine_initialize(NLPEngine_init, spacy_model)
    /\ LET r == SceneAnalyzer_initialize(SceneAnalyzer_init, heap)
       IN  /\ scene_analyzer' = r.analyzer
           /\ heap' = r.heap
    /\ decision_engine' = DecisionEngine_initialize(DecisionEngine_init)
    /\ UNCHANGED <<request, response, applied, nUpdateCalls>>

Startup == \E ollama \in {"absent", "down", "ready"}, spacy_model \in BOOLEAN :
               StartupWith(ollama, spacy_model)

\* shutdown_event
Shutdown ==
    /\ scene_analyzer.exists
    /\ scene_analyzer.initialized
    /\ ollama_client' = IF ollama_client.exists THEN OllamaClient_shutdown(ollama_client)
                        ELSE ollama_client
    /\ nlp_engine' = NLPEngine_shutdown(nlp_engine)
    /\ scene_analyzer' = SceneAnalyzer_shutdown(scene_analyzer)
    /\ heap' = Collect(heap, scene_analyzer')
    /\ decision_engine' = DecisionEngine_shutdown(decision_engine)
    /\ UNCHANGED <<request, response, applied, nUpdateCalls>>

(***************************************************************************)
(* Scene updates.                                                          *)
(***************************************************************************)
\* the record of a completed tracker update: what was asked, the history
\* entry it appended and the scene as it was right after it
AppliedRecord(scene_data, sa, h) ==
    [delta |-> scene_data,
     entry |-> sa.scene_history[Len(sa.scene_history)],
     post |-> h[sa.current_scene]]

\* SceneStateUpdate.validate_array_size
validate_array_size(v) == Len(v) <= MaxItems

\* POST /scene/update (api.update_scene_state)
ApiSceneUpdate(state) ==
    /\ request' = [op |-> "apply_scene_update", args |-> state]
    /\ nUpdateCalls' = nUpdateCalls + 1
    /\ UNCHANGED <<ollama_client, nlp_engine, decision_engine>>
    /\ IF ~(validate_array_size(state.objects) /\ validate_array_size(state.lights)
            /\ validate_array_size(state.cameras))
       THEN /\ response' = Raised(422, "Too many items (max 1000)")
            /\ UNCHANGED <<scene_analyzer, heap, applied>>
       ELSE IF scene_analyzer.exists /\ scene_analyzer.initialized
       THEN LET r == SceneAnalyzer_update_scene_state(scene_analyzer, heap,
                        [objects |-> state.objects, lights |-> state.lights,
                         cameras |-> state.cameras, timestamp |-> state.timestamp])
            IN  /\ scene_analyzer' = r.analyzer
                /\ heap' = r.heap
                /\ IF r.raised
                   THEN /\ response' = Raised(500, r.err)
                        /\ applied' = applied
                   ELSE /\ response' = Returned(200, [success |-> TRUE,
                                                      message |-> "Scene state updated"])
                        /\ applied' = Append(applied, AppliedRecord(state, r.analyzer, r.heap))
       ELSE /\ response' = Returned(200, [success |-> TRUE,
                                          message |-> "Scene state updated"])
            /\ UNCHANGED <<scene_analyzer, heap, applied>>

SceneUpdateRequest ==
    /\ nUpdateCalls < MaxUpdates
    /\ \E state \in ApiPayloads : ApiSceneUpdate(state)

\* a direct call of SceneAnalyzer.update_scene_state on the tracker
TrackerUpdate(scene_data) ==
    /\ scene_analyzer.exists
    /\ request' = [op |-> "update", args |-> scene_data]
    /\ nUpdateCalls' = nUpdateCalls + 1
    /\ UNCHANGED <<ollama_client, nlp_engine, decision_engine>>
    /\ LET r == SceneAnalyzer_update_scene_state(scene_analyzer, heap, scene_data)
       IN  /\ scene_analyzer' = r.analyzer
           /\ heap' = r.heap
           /\ IF r.raised
              THEN /\ response' = Raised(0, r.err)
                   /\ applied' = applied
              ELSE /\ response' = Returned(0, NoArgs)
                   /\ applied' = Append(applied, AppliedRecord(scene_data, r.analyzer, r.heap))

TrackerUpdateCall ==
    /\ nUpdateCalls < MaxUpdates
    /\ \E scene_data \in TrackerDeltas : TrackerUpdate(scene_data)

(***************************************************************************)
(* Direct calls of the tracker's queries.                                  *)
(***************************************************************************)
FindFreePosition ==
    /\ scene_analyzer.exists
    /\ \E reference_obj \in {"", "a", "zz"}, direction \in {"front", "left", "up"} :
        /\ request' = [op |-> "find_free_position",
                       args |-> [reference_obj |-> reference_obj,
                                 direction |-> direction]]
        /\ response' = SceneAnalyzer_find_free_position(scene_analyzer, heap,
                                                        reference_obj, direction)
    /\ UNCHANGED <<ollama_client, nlp_engine, scene_analyzer, decision_engine,
                   heap, applied, nUpdateCalls>>

(***************************************************************************)
(* interpret: POST /command.                                               *)
(***************************************************************************)
\* commands sent to POST /command
Commands == {"add a chair", "create a living room", " Remove the table ", "  "}

\* scene_state of a CommandRequest: None, snapshot-shaped data, or any dict
SceneStates ==
    { NoArgs,
      [objects |-> <<ObjA>>, lights |-> <<>>],
      [object_type |-> "table", relative_to |-> "a",
       position_hint |-> [x |-> -10, y |-> 10]],
      [relative_to |-> "table", position_hint |-> [py_str |-> "left"]] }

\* replies of the Ollama server to the chat call of parse_command
LlmParseReplies ==
    { [kind |-> "raise"], [kind |-> "prose"], [kind |-> "truncated"],
      [kind |-> "object", value |-> [intent |-> "create_scene", scene_type |-> "living_room"]],
      [kind |-> "object", value |-> [intent |-> "create_object",
                                     parameters |-> [object_type |-> "chair"]]] }

\* replies of the Ollama server to the chat call of generate_suggestions
LlmSuggestReplies ==
    { [kind |-> "raise"], [kind |-> "prose"],
      [kind |-> "list", value |-> <<"Add a chair", "Add a table", "Add a light",
                                    "Add a camera", "Add a sofa", "Add a cube">>] }

\* analyses of spaCy
SpacyAnalyses == {"raise", "untagged", "tagged"}

Unused == [kind |-> "unused"]

\* the replies to parse_command's chat call after which the call raises
LlmParseRaises(p) == p.kind \in {"raise", "truncated", "list"}

\* what the outside can do during one call, given the globals and the
\* command: the parts a call does not reach are "unused"
Environments(oc, ne, raw_command) ==
    IF Strip(raw_command) = ""
    THEN { [llm_parse |-> Unused, llm_suggest |-> Unused, analysis |-> "unused"] }
    ELSE IF oc.exists /\ oc.initialized
    THEN { [llm_parse |-> p, llm_suggest |-> q, analysis |-> "unused"] :
              p \in LlmParseReplies,
              q \in LlmSuggestReplies \cup {Unused} }
         \ { e \in [llm_parse : LlmParseReplies,
                    llm_suggest : LlmSuggestReplies \cup {Unused},
                    analysis : {"unused"}] :
                LlmParseRaises(e.llm_parse) # (e.llm_suggest = Unused) }
    ELSE { [llm_parse |-> Unused, llm_suggest |-> Unused, analysis |-> a] :
              a \in IF ne.exists /\ ne.initialized /\ ne.nlp THEN SpacyAnalyses
                    ELSE {"unused"} }

Interpret ==
    /\ \E command \in Commands, scene_state \in SceneStates :
       \E env \in Environments(ollama_client, nlp_engine, command) :
        /\ request' = [op |-> "interpret",
                       args |-> [command |-> command, scene_state |-> scene_state,
                                 env |-> env]]
        /\ response' = process_command(ollama_client, nlp_engine, decision_engine,
                                       command, scene_state, env)
    /\ UNCHANGED <<ollama_client, nlp_engine, scene_analyzer, decision_engine,
                   heap, applied, nUpdateCalls>>

(***************************************************************************)
(* suggest: POST /suggestions (api.get_suggestions).                       *)
(***************************************************************************)
\* SuggestionRequest.validate_partial_command: max 500 characters
MaxPartialLength == 500

\* get_suggestions: the suggestions when neither provider nor parser answers
FallbackSuggestions ==
    << "Add a camera in front of character",
       "Add dramatic lighting to the scene",
       "Create a living room with furniture" >>

\* get_suggestions: base_completions
BaseCompletions ==
    << "Add a table", "Add a chair", "Add a light", "Move the cube", "Create a scene" >>

\* the completions with the prefix mutated to a substring test
CompletionsBySubstring(partial_command) ==
    IF partial_command # ""
    THEN Take(SelectIndices(BaseCompletions,
                 {i \in 1..Len(BaseCompletions) :
                     Contains(Lower(BaseCompletions[i]), Lower(partial_command))}, 1), 3)
    ELSE <<>>

\* get_suggestions: completions
Completions(partial_command) ==
    IF partial_command # ""
    THEN Take(SelectIndices(BaseCompletions,
                 {i \in 1..Len(BaseCompletions) :
                     StartsWith(Lower(BaseCompletions[i]), Lower(partial_command))}, 1), 3)
    ELSE <<>>

\* get_suggestions on the globals (oc, ne); llm_suggest is the reply of the
\* Ollama server to the chat call
get_suggestions(oc, ne, raw_partial, llm_suggest) ==
    IF Len(raw_partial) > MaxPartialLength
    THEN Raised(422, "Partial command too long (max 500 characters)")
    ELSE
      LET partial_command == Strip(raw_partial)
          suggestions ==
              IF oc.exists /\ oc.initialized
              THEN OllamaClient_generate_suggestions(oc, partial_command, llm_suggest)
              ELSE IF ne.exists /\ ne.initialized
              THEN NLPEngine_generate_suggestions(partial_command)
              ELSE FallbackSuggestions
      IN  Returned(200, [suggestions |-> Take(suggestions, 5),
                         completions |-> Completions(partial_command)])

\* partial commands sent to POST /suggestions
PartialCommands == {"", "a", "add", " ADD A ", "table", "mo"}

Suggest ==
    /\ \E partial \in PartialCommands,
          llm_suggest \in IF ollama_client.exists /\ ollama_client.initialized
                          THEN LlmSuggestReplies ELSE {Unused} :
        /\ request' = [op |-> "suggest",
                       args |-> [partial_command |-> partial,
                                 llm_suggest |-> llm_suggest]]
        /\ response' = get_suggestions(ollama_client, nlp_engine, partial, llm_suggest)
    /\ UNCHANGED <<ollama_client, nlp_engine, scene_analyzer, decision_engine,
                   heap, applied, nUpdateCalls>>

(***************************************************************************)
(* Direct calls of DecisionEngine.make_decision, and the components driven *)
(* one by one through their lifecycle.                                     *)
(***************************************************************************)
\* the intents the parser's table names, "unknown", and a string of no table
Intents ==
    { LoadedPatterns[i].intent : i \in 1..Len(LoadedPatterns) } \cup {"unknown", "fly"}

\* (intent, context) pairs given to make_decision: every intent with an
\* empty context, and the contexts the handlers read
DecideInputs ==
    { [intent |-> i, context |-> NoArgs] : i \in Intents }
    \cup { [intent |-> "create_object", context |-> c] :
             c \in { [object_type |-> "chair"],
                     [object_type |-> "light"],
                     [object_type |-> "sofa"],
                     [object_type |-> "camera", position_hint |-> [x |-> 10, y |-> 10]],
                     [object_type |-> "chair", relative_to |-> "table",
                      position_hint |-> [x |-> -10, y |-> 10, z |-> 10]],
                     [relative_to |-> "table"] } }
    \cup { [intent |-> "create_scene", context |-> [scene_type |-> t]] :
             t \in {"living_room", "dramatic_lighting", "nonexistent"} }
    \cup { [intent |-> "create_light", context |-> [template |-> "dramatic_lighting"]] }

DecideCall ==
    /\ decision_engine.exists
    /\ \E in \in DecideInputs :
        /\ request' = [op |-> "decide", args |-> in]
        /\ response' = DecisionEngine_make_decision(decision_engine, in.intent, in.context)
    /\ UNCHANGED <<ollama_client, nlp_engine, scene_analyzer, decision_engine,
                   heap, applied, nUpdateCalls>>

\* SceneAnalyzer() and DecisionEngine(): the objects before initialize
Construct ==
    /\ ~scene_analyzer.exists
    /\ ~decision_engine.exists
    /\ scene_analyzer' = SceneAnalyzer_init
    /\ decision_engine' = DecisionEngine_init
    /\ UNCHANGED <<ollama_client, nlp_engine, heap, request, response, applied,
                   nUpdateCalls>>

\* initialize() of one component that is constructed or shut down
ComponentInitialize ==
    /\ scene_analyzer.exists
    /\ \E component \in {"tracker", "decision"} :
        IF component = "tracker"
        THEN /\ ~scene_analyzer.initialized
             /\ LET r == SceneAnalyzer_initialize(scene_analyzer, heap)
                 IN  /\ scene_analyzer' = r.analyzer
                     /\ heap' = r.heap
             /\ UNCHANGED decision_engine
        ELSE /\ ~decision_engine.initialized
             /\ decision_engine' = DecisionEngine_initialize(decision_engine)
             /\ UNCHANGED <<scene_analyzer, heap>>
    /\ UNCHANGED <<ollama_client, nlp_engine, request, response, applied, nUpdateCalls>>

\* shutdown() of one component, at any time after construction
ComponentShutdown ==
    /\ scene_analyzer.exists
    /\ \E component \in {"tracker", "decision"} :
        IF component = "tracker"
        THEN /\ scene_analyzer' = SceneAnalyzer_shutdown(scene_analyzer)
             /\ heap' = Collect(heap, scene_analyzer')
             /\ UNCHANGED decision_engine
        ELSE /\ decision_engine' = DecisionEngine_shutdown(decision_engine)
             /\ UNCHANGED <<scene_analyzer, heap>>
    /\ UNCHANGED <<ollama_client, nlp_engine, request, response, applied, nUpdateCalls>>

NextLifecycle ==
    \/ Construct
    \/ ComponentInitialize
    \/ ComponentShutdown
    \/ TrackerUpdateCall
    \/ DecideCall

SpecLifecycle == Init /\ [][NextLifecycle]_vars

\* commands given to parse_command: those of POST /command, commands with
\* triggers of several intents, with inflected verbs, with direction words,
\* with the triggers of the camera, light and scene rows
ParseCommands ==
    Commands \cup
    { "add camera", "load the cube and move it", "reset the light", "open scene",
      "destroy the cube", "made a sphere", "removing the table", "built a table",
      "hello there", "put a chair left right of the table",
      "place a light above above the cube", "add a table behind the chair in front",
      "add light", "set light", "change camera", "make scene", "build scene" }

\* a direct call of nlp_engine.parse_command, in any lifecycle state of the
\* engine object
ParseCommandCall ==
    /\ nlp_engine.exists
    /\ \E command \in ParseCommands,
          analysis \in IF nlp_engine.initialized /\ nlp_engine.nlp
                       THEN SpacyAnalyses ELSE {"unused"} :
        /\ request' = [op |-> "parse_command",
                       args |-> [command |-> command, analysis |-> analysis]]
        /\ response' = NLPEngine_parse_command(nlp_engine, command, analysis)
    /\ UNCHANGED <<ollama_client, nlp_engine, scene_analyzer, decision_engine,
                   heap, applied, nUpdateCalls>>

\* The command side of the service.  process_command reads ollama_client,
\* nlp_engine and decision_engine and never scene_analyzer, and the scene
\* update reads scene_analyzer only, so the command side is explored with the
\* tracker left as startup and shutdown leave it.
NextCommand ==
    \/ Startup
    \/ Shutdown
    \/ Interpret
    \/ ParseCommandCall
    \/ DecideCall
    \/ Suggest

SpecCommand == Init /\ [][NextCommand]_vars

(***************************************************************************)
(* The long run of scene updates: the engine sends two payloads of its     *)
(* choice and then keeps re-sending the last one, its clock advancing by   *)
(* one second each time.                                                   *)
(***************************************************************************)
HistoryStartup == StartupWith("absent", FALSE)

HistoryUpdate ==
    /\ scene_analyzer.initialized
    /\ nUpdateCalls < MaxHistoryUpdates
    /\ IF nUpdateCalls < FreeUpdates
       THEN \E state \in ApiPayloads : ApiSceneUpdate(state)
       ELSE ApiSceneUpdate([request.args EXCEPT !.timestamp = @ + 10])

NextHistory == HistoryStartup \/ HistoryUpdate

SpecHistory == Init /\ [][NextHistory]_vars

(***************************************************************************)
(* The service without a provider: commands, suggestions and scene updates *)
(* interleaved.                                                            *)
(***************************************************************************)
NextService ==
    \/ HistoryStartup
    \/ SceneUpdateRequest
    \/ Interpret
    \/ Suggest

SpecService == Init /\ [][NextService]_vars

(***************************************************************************)
(* The running service and the tracker's queries: a scene is sent to the   *)
(* tracker, and the queries, commands and suggestion requests come before  *)
(* and after it.                                                           *)
(***************************************************************************)
MaxQueryUpdates == 1

\* scene_data of the updates: ties in distance, an empty scene, an object
\* on every cell of the grid that find_free_position searches,
\* an empty name and a duplicated name, one to four lights
QueryScenes ==
    { [objects |-> <<ObjB, ObjA>>, lights |-> <<LightKey, LightFill>>,
       cameras |-> <<CamMain>>, timestamp |-> 10],
      [objects |-> <<>>, lights |-> <<>>, timestamp |-> 20],
      [objects |->
          LET side == 2 * SearchRadii - 1
          IN  [i \in 1..(side * side) |->
                 [name |-> "cell" \o ToString(i), type |-> "cube",
                  position |-> << 10 * (((i - 1) \div side) - (SearchRadii - 1)), 0,
                                  10 * (((i - 1) % side) - (SearchRadii - 1)) >>]],
       timestamp |-> 30],
      [objects |-> << [name |-> "", type |-> "cube", position |-> <<-6, 0, 4>>],
                      ObjA, ObjA2 >>, timestamp |-> 40],
      [objects |-> << [name |-> "c", type |-> "cube", position |-> <<30, 0, 0>>], ObjB >>,
       lights |-> << LightKey, LightFill,
                     [name |-> "back", type |-> "back_light", position |-> <<0, 30, -30>>],
                     [name |-> "rim", type |-> "rim_light", position |-> <<0, 40, 0>>] >>,
       timestamp |-> 50],
      [lights |-> << LightKey, LightFill,
                     [name |-> "back", type |-> "back_light", position |-> <<0, 30, -30>>] >>,
       cameras |-> <<>>, timestamp |-> 60],
      [lights |-> <<LightKey>>, timestamp |-> 70] }

QueryUpdate ==
    /\ nUpdateCalls < MaxQueryUpdates
    /\ \E scene_data \in QueryScenes : TrackerUpdate(scene_data)

GetObjectByName ==
    /\ scene_analyzer.exists
    /\ \E name \in {"a", "", "zz"} :
        /\ request' = [op |-> "get_object_by_name", args |-> [name |-> name]]
        /\ response' = SceneAnalyzer_get_object_by_name(scene_analyzer, heap, name)
    /\ UNCHANGED <<ollama_client, nlp_engine, scene_analyzer, decision_engine,
                   heap, applied, nUpdateCalls>>

GetObjectsByType ==
    /\ scene_analyzer.exists
    /\ \E object_type \in {"chair", "cube"} :
        /\ request' = [op |-> "get_objects_by_type",
                       args |-> [object_type |-> object_type]]
        /\ response' = SceneAnalyzer_get_objects_by_type(scene_analyzer, heap,
                                                         object_type)
    /\ UNCHANGED <<ollama_client, nlp_engine, scene_analyzer, decision_engine,
                   heap, applied, nUpdateCalls>>

GetNearestObject ==
    /\ scene_analyzer.exists
    /\ \E position \in {<<0, 0, 0>>, <<-10, 0, -10>>, <<15, 10, 0>>} :
        /\ request' = [op |-> "get_nearest_object", args |-> [position |-> position]]
        /\ response' = SceneAnalyzer_get_nearest_object(scene_analyzer, heap, position)
    /\ UNCHANGED <<ollama_client, nlp_engine, scene_analyzer, decision_engine,
                   heap, applied, nUpdateCalls>>

\* analyze_scene_composition keeping its result in the scene's metadata
AnalyzeAndRecord ==
    /\ scene_analyzer.initialized
    /\ request' = [op |-> "analyze_scene_composition", args |-> NoArgs]
    /\ response' = SceneAnalyzer_analyze_scene_composition(scene_analyzer, heap)
    /\ heap' = [heap EXCEPT ![scene_analyzer.current_scene].metadata =
                                [last_analysis |-> response'.body]]
    /\ UNCHANGED <<ollama_client, nlp_engine, scene_analyzer, decision_engine,
                   applied, nUpdateCalls>>

AnalyzeSceneComposition ==
    /\ scene_analyzer.exists
    /\ request' = [op |-> "analyze_scene_composition", args |-> NoArgs]
    /\ response' = SceneAnalyzer_analyze_scene_composition(scene_analyzer, heap)
    /\ UNCHANGED <<ollama_client, nlp_engine, scene_analyzer, decision_engine,
                   heap, applied, nUpdateCalls>>

NextQueries ==
    \/ HistoryStartup
    \/ QueryUpdate
    \/ GetObjectByName
    \/ GetObjectsByType
    \/ GetNearestObject
    \/ FindFreePosition
    \/ AnalyzeSceneComposition
    \/ Interpret
    \/ Suggest

SpecQueries == Init /\ [][NextQueries]_vars

Next ==
    \/ Startup
    \/ Shutdown
    \/ SceneUpdateRequest
    \/ TrackerUpdateCall
    \/ FindFreePosition

Spec == Init /\ [][Next]_vars

(***************************************************************************)
(* Properties.                                                             *)
(***************************************************************************)
Categories == {"objects", "lights", "cameras"}

History == scene_analyzer.scene_history

\* the dict the tracker's current_scene refers to
CurrentScene == heap[scene_analyzer.current_scene]

\* everything a reader of the tracker can see
TrackerState == <<scene_analyzer, heap>>

\* this step is a call of update (through the API or on the tracker)
UpdateCalled == nUpdateCalls' # nUpdateCalls

\* this step is an update the initialized tracker completed
UpdateSucceeded ==
    UpdateCalled /\ scene_analyzer.initialized /\ ~response'.raised

\* map m holds the items of the list, each under its name, and nothing else
CategoryCarries(m, items) ==
    /\ \A i \in 1..Len(items) : HasKey(items[i], "name")
    /\ DictKeys(m) = {items[i].name : i \in 1..Len(items)}
    /\ Len(m) = Cardinality(DictKeys(m))
    /\ \A j \in 1..Len(m) :
          /\ \E i \in 1..Len(items) : m[j].v = items[i]
          /\ m[j].v.name = m[j].k

\* an item without a name, or a list of more than 1000 items
Malformed(scene_data) ==
    \E cat \in Categories \cap DOMAIN scene_data :
        \/ Len(scene_data[cat]) > MaxItems
        \/ \E i \in 1..Len(scene_data[cat]) : ~HasKey(scene_data[cat][i], "name")

\* C1: while the tracker is initialized, after N completed updates the
\* history holds exactly min(N, 100) entries, and they are the entries
\* appended by the most recent min(N, 100) updates, in the order applied,
\* each with the timestamp of its update.
C1_HistoryIsMostRecent ==
    scene_analyzer.initialized =>
        LET N == Len(applied)
            K == IF N < HistoryLimit THEN N ELSE HistoryLimit
        IN  /\ Len(History) = K
            /\ \A i \in 1..K :
                  /\ History[i] = applied[N - K + i].entry
                  /\ History[i].timestamp = Get(applied[N - K + i].delta, "timestamp", 0)

\* more than 100 updates have completed; the oldest were evicted
C1_Witness ==
    /\ scene_analyzer.initialized
    /\ Len(applied) > HistoryLimit
    /\ Len(History) = HistoryLimit
    /\ History[1].timestamp < History[HistoryLimit].timestamp
    /\ History[1] # applied[1].entry

\* C2: find_free_position without a resolvable reference never returns a
\* position whose (round(px), round(pz)) is the (round(x), round(z)) of an
\* object of the scene.
C2_FreePositionNeverCollides ==
    (/\ request.op = "find_free_position"
     /\ ~response.raised
     /\ ~(request.args.reference_obj # ""
          /\ request.args.reference_obj \in DictKeys(CurrentScene.objects)))
    => LET p == response.body.position
       IN  <<PyRound(p[1]), PyRound(p[3])>> \notin OccupiedPositions(CurrentScene.objects)

\* C3: an update is all or nothing for every other request: a step of an
\* update call either leaves the tracker as it was or leaves every category
\* of the delta replaced and the matching history entry appended.
C3_UpdateIsAtomic ==
    [][UpdateCalled =>
        \/ TrackerState' = TrackerState
        \/ /\ scene_analyzer'.initialized
           /\ \A cat \in Categories \cap DOMAIN request'.args :
                 CategoryCarries(heap'[scene_analyzer'.current_scene][cat],
                                 request'.args[cat])
           /\ scene_analyzer'.scene_history # scene_analyzer.scene_history]_vars

\* C4: a malformed payload (an item without name, a list of more than 1000
\* items) sent to the initialized tracker is rejected and the tracker state
\* (the three maps and the history) is what it was before the call.
C4_MalformedUpdateChangesNothing ==
    [][(UpdateCalled /\ scene_analyzer.initialized /\ Malformed(request'.args))
        => (response'.raised /\ TrackerState' = TrackerState)]_vars

\* C5: a completed update replaces the map of every category present in the
\* delta by exactly the incoming list keyed by name, and leaves the map of
\* every absent category, and the metadata, unchanged.
C5_UpdateReplacesPresentCategories ==
    [][UpdateSucceeded =>
        LET before == heap[scene_analyzer.current_scene]
            after == heap'[scene_analyzer'.current_scene]
        IN  /\ \A cat \in Categories :
                  IF HasKey(request'.args, cat)
                  THEN CategoryCarries(after[cat], request'.args[cat])
                  ELSE after[cat] = before[cat]
            /\ after.metadata = before.metadata]_vars

\* an update without objects replaced the lights and kept the objects
C5_Witness ==
    /\ scene_analyzer.initialized
    /\ request.op = "update"
    /\ ~response.raised
    /\ ~HasKey(request.args, "objects")
    /\ Len(History) = 2
    /\ CurrentScene.objects = heap[History[1].snapshot].objects
    /\ CurrentScene.objects # <<>>
    /\ DictKeys(heap[History[1].snapshot].lights) = {"key"}
    /\ DictKeys(CurrentScene.lights) = {"fill"}

\* C6: every history entry carries the timestamp of its update and the
\* scene as it was right after that update, whatever has happened since.
C6_HistoryEntryKeepsItsSnapshot ==
    scene_analyzer.initialized =>
        \A i \in 1..Len(History) :
            LET rec == applied[Len(applied) - Len(History) + i]
            IN  /\ heap[History[i].snapshot] = rec.post
                /\ HasKey(rec.delta, "timestamp")
                      => History[i].timestamp = rec.delta.timestamp

\* a later update changed the scene; the older entry has the older scene
C6_Witness ==
    /\ scene_analyzer.initialized
    /\ Len(History) >= 2
    /\ History[1].timestamp = 10
    /\ heap[History[1].snapshot] # CurrentScene
    /\ heap[History[1].snapshot].objects # <<>>

\* the last call was interpret, with a command that passes validation
Interpreted ==
    /\ request.op = "interpret"
    /\ Strip(request.args.command) # ""
    /\ Len(request.args.command) <= MaxCommandLength

\* during the last interpret the provider was absent, raised, or returned
\* output that is not a JSON object
ProviderUnavailable ==
    \/ ~(ollama_client.exists /\ ollama_client.initialized)
    \/ request.args.env.llm_parse.kind \in {"raise", "prose", "truncated"}

\* the results interpret gives for the last request with no provider
\* configured, one for each analysis spaCy can make
RuleBasedResults ==
    { process_command(NoOllamaClient, nlp_engine, decision_engine,
                      request.args.command, request.args.scene_state,
                      [llm_parse |-> Unused, llm_suggest |-> Unused, analysis |-> a]) :
        a \in IF nlp_engine.exists /\ nlp_engine.initialized /\ nlp_engine.nlp
              THEN SpacyAnalyses ELSE {"unused"} }

\* C7: when the provider is absent, raises or returns unparsable output
\* during interpret, the result is the one the rule-based parser gives
\* with no provider configured, and the failure is not surfaced.
C7_ProviderFailureFallsBack ==
    (Interpreted /\ ProviderUnavailable) => response \in RuleBasedResults

\* C8: every interpret returns a result; it never fails with an error
\* status, and a result always carries the reasoning of the decision, never
\* the default message of a decision that has none.
C8_InterpretAlwaysWellFormed ==
    Interpreted =>
        /\ ~response.raised
        /\ response.body.message # "Command processed"

\* C9: parse_command never raises to its caller, whatever the lifecycle
\* state of the engine; a failure gives intent "unknown" with empty
\* parameters and entities and an error message.
C9_ParseNeverRaises ==
    request.op = "parse_command" =>
        /\ ~response.raised
        /\ HasKey(response.body, "error") =>
              /\ response.body.intent = "unknown"
              /\ response.body.parameters = NoArgs
              /\ response.body.entities = <<>>

\* C10: apply_scene_update reports success only when the tracker applied
\* the update, and fails when the tracker is missing or not initialized.
C10_SuccessMeansApplied ==
    [][(UpdateCalled /\ request'.op = "apply_scene_update") =>
        IF scene_analyzer.exists /\ scene_analyzer.initialized
        THEN ~response'.raised =>
                Len(scene_analyzer'.scene_history) = Len(scene_analyzer.scene_history) + 1
        ELSE response'.raised]_vars

\* this step is a call of make_decision on the engine
DecideCalled ==
    request'.op = "decide" /\ <<request, response>>' # <<request, response>>

\* the errors of a call made outside initialize .. shutdown
NotInitialized == {"Scene Analyzer not initialized", "Decision Engine not initialized"}

\* C11: update_scene_state and make_decision called before initialize or
\* after shutdown fail with NotInitialized and change neither the tracker
\* (scene, history) nor the engine (rules, templates); called between
\* initialize and shutdown they never fail with NotInitialized.
C11_CallsAreGatedByLifecycle ==
    [][ /\ (UpdateCalled /\ request'.op = "update") =>
              IF scene_analyzer.initialized
              THEN ~(response'.raised /\ response'.body.detail \in NotInitialized)
              ELSE /\ response' = Raised(0, "Scene Analyzer not initialized")
                   /\ UNCHANGED <<scene_analyzer, heap, decision_engine>>
        /\ DecideCalled =>
              IF decision_engine.initialized
              THEN ~(response'.raised /\ response'.body.detail \in NotInitialized)
              ELSE /\ response' = Raised(0, "Decision Engine not initialized")
                   /\ UNCHANGED <<scene_analyzer, heap, decision_engine>> ]_vars

\* make_decision has failed on an engine that is not initialized while the
\* tracker, initialized, has applied an update
C11_Witness ==
    /\ request.op = "decide"
    /\ response = Raised(0, "Decision Engine not initialized")
    /\ ~decision_engine.initialized
    /\ scene_analyzer.initialized
    /\ Len(History) > 0

\* C12: the rule-based parser returns the intent of the first row, in
\* the declared order of the table, that has a trigger occurring in the
\* lowercased command; with no such row the first verb-tagged token decides
\* through the verb map; otherwise the intent is "unknown".
C12_FirstMatchWins ==
    (request.op = "parse_command" /\ ~response.raised
        /\ ~HasKey(response.body, "error")) =>
        LET order == << "create_object", "modify_object", "delete_object",
                        "create_camera", "modify_camera", "create_light",
                        "modify_light", "create_scene", "save_scene", "load_scene" >>
            verb_map == [add |-> "create_object", create |-> "create_object",
                         make |-> "create_object", move |-> "modify_object",
                         rotate |-> "modify_object", scale |-> "modify_object",
                         remove |-> "delete_object", delete |-> "delete_object"]
            table == LoadedPatterns
            \* rows: the rows with a trigger in the text; verbs: the tokens
            \* tagged as verbs
            Decides(intent, doc, rows, verbs) ==
                /\ \A i \in rows : (\A h \in rows : i <= h) => intent = order[i]
                /\ rows = {} =>
                      /\ \A k \in verbs : (\A h \in verbs : k <= h) =>
                            intent = Get(verb_map, doc.tokens[k].lemma_, "unknown")
                      /\ verbs = {} => intent = "unknown"
            Parsed(text, doc) ==
                Decides(response.body.intent, doc,
                        { i \in 1..Len(table) :
                            \E j \in 1..Len(table[i].patterns) :
                                Contains(text, table[i].patterns[j]) },
                        { k \in 1..Len(doc.tokens) : doc.tokens[k].pos_ = "VERB" })
            \* the analysis is "unused" when spaCy is not loaded
            Lowered(text) ==
                Parsed(text, IF request.args.analysis = "unused"
                             THEN FallbackDoc(text, Split(text))
                             ELSE SpacyDoc(text, request.args.analysis))
        IN  /\ [i \in 1..Len(table) |-> table[i].intent] = order
            /\ Lowered(Lower(request.args.command))

\* a command with the triggers "load" (load_scene, last row) and "move"
\* (modify_object, second row): the earlier row wins, not the earlier word
C12_Witness ==
    /\ request.op = "parse_command"
    /\ request.args.command = "load the cube and move it"
    /\ ~response.raised
    /\ response.body.intent = "modify_object"

\* the last call was interpret, answered by the initialized rule-based
\* parser (no provider in use, spaCy absent or working)
InterpretedByRules ==
    /\ Interpreted
    /\ request.args.env.llm_parse = Unused
    /\ request.args.env.analysis # "raise"
    /\ ~response.raised

\* C13: with an empty scene and no provider, "create a living room" gives
\* at least one create_object action, at least one create_light action and
\* exactly the camera actions of the living_room template, objects before
\* lights before cameras.
C13_LivingRoomScenario ==
    (InterpretedByRules /\ request.args.command = "create a living room"
        /\ request.args.scene_state = NoArgs) =>
        LET actions == response.body.actions
            cameras == LoadedTemplates.living_room.cameras
            Of(type) == { i \in 1..Len(actions) : actions[i].type = type }
        IN  /\ Of("create_object") # {}
            /\ Of("create_light") # {}
            /\ Cardinality(Of("create_camera")) = Len(cameras)
            /\ \A k \in 1..Len(cameras) :
                  actions[Len(actions) - Len(cameras) + k]
                      = [type |-> "create_camera", position |-> cameras[k].position]
            /\ \A i \in Of("create_object"), j \in Of("create_light") : i < j
            /\ \A i \in Of("create_light"), j \in Of("create_camera") : i < j

\* the last call was make_decision for this intent, on an initialized engine
DecideReturned(intent) ==
    /\ request.op = "decide"
    /\ request.args.intent = intent
    /\ ~response.raised

\* C14: for create_scene with a known template, the actions are one
\* create_object per template object, then one create_light per template
\* light, then one create_camera per template camera, each group in
\* template order; with an unknown template the action list is empty and
\* the reasoning contains the template's name.
C14_SceneFollowsTemplate ==
    DecideReturned("create_scene") =>
        LET scene_type == Get(request.args.context, "scene_type", "living_room")
            actions == response.body.actions
        IN  IF scene_type \in DOMAIN LoadedTemplates
            THEN LET template == LoadedTemplates[scene_type]
                     objects == Get(template, "objects", <<>>)
                     lights == Get(template, "lights", <<>>)
                     cameras == Get(template, "cameras", <<>>)
                     no == Len(objects)
                     nl == Len(lights)
                 IN  /\ Len(actions) = no + nl + Len(cameras)
                     /\ \A i \in 1..no :
                           actions[i] = [type |-> "create_object",
                                         object_type |-> objects[i].type,
                                         position |-> objects[i].position]
                     /\ \A i \in 1..nl :
                           actions[no + i] = [type |-> "create_light",
                                              light_type |-> lights[i].type,
                                              position |-> lights[i].position]
                     /\ \A i \in 1..Len(cameras) :
                           actions[no + nl + i] = [type |-> "create_camera",
                                                   position |-> cameras[i].position]
            ELSE /\ actions = <<>>
                 /\ Contains(response.body.reasoning, scene_type)

\* the living_room template has been emitted: 4 objects, 2 lights, 1 camera
C14_Witness ==
    /\ DecideReturned("create_scene")
    /\ request.args.context = [scene_type |-> "living_room"]
    /\ Len(response.body.actions) = 7
    /\ response.body.actions[5].type = "create_light"

\* C15: for create_object, make_decision emits exactly one create_object
\* action, of the context's object_type ("cube" when absent), with rotation
\* (0,0,0) and scale (1,1,1), and without a position hint at
\* (0, default_height of the type's placement rule, 0); interpret of
\* "add a chair" with no scene context gives exactly one create_object
\* action for a chair at (0, 0.0, 0).
C15_CreateObjectAction ==
    /\ DecideReturned("create_object") =>
          LET context == request.args.context
              actions == response.body.actions
              object_type == Get(context, "object_type", "cube")
              rule == Get(LoadedRules.placement, object_type, NoArgs)
          IN  /\ Len(actions) = 1
              /\ actions[1].type = "create_object"
              /\ actions[1].object_type = object_type
              /\ actions[1].rotation = <<0, 0, 0>>
              /\ actions[1].scale = <<10, 10, 10>>
              /\ ~HasKey(context, "position_hint") =>
                    actions[1].position = <<0, Get(rule, "default_height", 0), 0>>
    /\ (InterpretedByRules /\ request.args.command = "add a chair"
          /\ request.args.scene_state = NoArgs) =>
          response.body.actions =
              << [type |-> "create_object", object_type |-> "chair",
                  position |-> <<0, 0, 0>>, rotation |-> <<0, 0, 0>>,
                  scale |-> <<10, 10, 10>>] >>

\* "add a chair" has been interpreted by the rule-based parser
C15_Witness ==
    /\ InterpretedByRules
    /\ request.args.command = "add a chair"
    /\ request.args.scene_state = NoArgs
    /\ Len(response.body.actions) = 1
    /\ response.body.message = "Creating chair at optimal position"

\* C16: make_decision dispatches create_object, modify_object,
\* create_camera, create_light and create_scene each to its own handler;
\* every other intent, those of the parser's table included, gives exactly
\* {actions: [], reasoning: "Unknown intent"}.
C16_DispatchIsFixed ==
    (request.op = "decide" /\ ~response.raised) =>
        LET intent == request.args.intent
            actions == response.body.actions
            own == {"create_object", "modify_object", "create_camera", "create_light"}
        IN  /\ intent \in own =>
                  /\ actions # <<>>
                  /\ \A i \in 1..Len(actions) : actions[i].type = intent
            /\ intent = "create_scene" =>
                  \/ Contains(response.body.reasoning, " scene template")
                  \/ Contains(response.body.reasoning, "Template ")
            /\ intent \notin own \cup {"create_scene"} =>
                  response.body = [actions |-> <<>>, reasoning |-> "Unknown intent"]

\* delete_object, an intent of the parser's table, has been given to
\* make_decision
C16_Witness ==
    /\ DecideReturned("delete_object")
    /\ response.body.reasoning = "Unknown intent"

\* this step is a call of suggest
SuggestCalled ==
    request'.op = "suggest" /\ <<request, response>>' # <<request, response>>

\* the first n entries of list, in order, among those whose index is in
\* matching
FirstMatches(list, matching, n) ==
    [k \in 1..(IF Cardinality(matching) < n THEN Cardinality(matching) ELSE n) |->
        list[CHOOSE i \in matching : Cardinality({j \in matching : j <= i}) = k]]

\* C18 as stated: the completions are the first 3 phrases of the completion
\* list that start with partial_command, whatever partial_command is; with
\* the parser answering, the suggestions are the first 5 static suggestions
\* that contain partial_command (all of them for "").
C18_SuggestAsStated ==
    [][(SuggestCalled /\ ~response'.raised) =>
        LET Matches(partial_command) ==
              /\ response'.body.completions =
                    FirstMatches(BaseCompletions,
                        {i \in 1..Len(BaseCompletions) :
                            StartsWith(Lower(BaseCompletions[i]), partial_command)}, 3)
              /\ (~(ollama_client.exists /\ ollama_client.initialized)
                     /\ nlp_engine.exists /\ nlp_engine.initialized) =>
                    response'.body.suggestions =
                        FirstMatches(StaticSuggestions,
                            {i \in 1..Len(StaticSuggestions) :
                                Contains(Lower(StaticSuggestions[i]), partial_command)}, 5)
        IN  Matches(Lower(Strip(request'.args.partial_command)))
       ]_vars

\* C18: for a partial_command that is not empty after strip the
\* completions are the first 3 phrases of the completion list that start
\* with it, and for an empty one there is no completion; with the parser
\* answering, the suggestions are the first 5 static suggestions that
\* contain partial_command (all of them for ""); case is ignored.
C18_SuggestFiltersAndCaps ==
    [][(SuggestCalled /\ ~response'.raised) =>
        LET Matches(partial_command) ==
              /\ response'.body.completions =
                    IF partial_command = "" THEN <<>>
                    ELSE FirstMatches(BaseCompletions,
                            {i \in 1..Len(BaseCompletions) :
                                StartsWith(Lower(BaseCompletions[i]), partial_command)}, 3)
              /\ (~(ollama_client.exists /\ ollama_client.initialized)
                     /\ nlp_engine.exists /\ nlp_engine.initialized) =>
                    response'.body.suggestions =
                        FirstMatches(StaticSuggestions,
                            {i \in 1..Len(StaticSuggestions) :
                                Contains(Lower(StaticSuggestions[i]), partial_command)}, 5)
        IN  Matches(Lower(Strip(request'.args.partial_command)))
       ]_vars

\* "a" is a prefix of three completions and occurs in all six static
\* suggestions: both caps have cut
C18_Witness ==
    /\ request.op = "suggest"
    /\ request.args = [partial_command |-> "a", llm_suggest |-> Unused]
    /\ Len(response.body.completions) = 3
    /\ Len(response.body.suggestions) = 5
    /\ response.body.suggestions[5] = StaticSuggestions[5]

\* C17: with the tables loaded and no provider, the actions and the
\* reasoning of interpret are a function of the command and the scene
\* context alone (the decision on the parsed command, the context merged
\* over the parsed parameters), whatever updates, commands and suggestion
\* requests the service has handled before.
C17_InterpretIsDeterministic ==
    (InterpretedByRules /\ scene_analyzer.exists) =>
        LET tables == DecisionEngine_initialize(DecisionEngine_init)
            parser == NLPEngine_initialize(NLPEngine_init, FALSE)
            Same(parsed) ==
                LET decision == DecisionEngine_make_decision(tables, parsed.intent,
                                    Merge(parsed.parameters, request.args.scene_state)).body
                IN  /\ response.body.actions = decision.actions
                    /\ response.body.message = Get(decision, "reasoning", "Command processed")
        IN  Same(NLPEngine_parse_command(parser, Strip(request.args.command), "unused").body)

\* a command has been interpreted after the tracker has applied two updates
C17_Witness ==
    /\ InterpretedByRules
    /\ request.args.command = "add a chair"
    /\ Len(History) = 2
    /\ CurrentScene.objects # <<>>
    /\ response.body.actions # <<>>

\* C19: for create_object with a position_hint in the context, the
\* position is (0, default_height, 0) plus 2.0 times the hint's delta on
\* each of x, y and z, with or without relative_to.
C19_HintMovesAllAxes ==
    (DecideReturned("create_object") /\ HasKey(request.args.context, "position_hint")) =>
        LET context == request.args.context
            hint == context.position_hint
            rule == Get(LoadedRules.placement, Get(context, "object_type", "cube"), NoArgs)
        IN  response.body.actions[1].position =
                << 0 + 2 * Get(hint, "x", 0),
                   Get(rule, "default_height", 0) + 2 * Get(hint, "y", 0),
                   0 + 2 * Get(hint, "z", 0) >>

\* C20: the position_hint the parser returns is, on each axis, the sum of
\* the deltas of all direction words of the command (front +z, behind -z,
\* left -x, right +x, above +y, below -y): opposite words cancel and a
\* repeated word counts each time.
C20_HintsAccumulate ==
    (request.op = "parse_command" /\ ~response.raised
        /\ HasKey(response.body, "parameters")
        /\ HasKey(response.body.parameters, "position_hint")) =>
        LET tokens == response.body.tokens
            hint == response.body.parameters.position_hint
            Count(word) == Cardinality({i \in 1..Len(tokens) : tokens[i] = word})
        IN  /\ Get(hint, "x", 0) = 10 * (Count("right") - Count("left"))
            /\ Get(hint, "y", 0) = 10 * (Count("above") - Count("below"))
            /\ Get(hint, "z", 0) = 10 * (Count("front") - Count("behind"))

\* C21: the parsed parameter object_type is the text of the first
\* OBJECT_TYPE entity in token order when the command holds one or more known
\* object-type words, and is absent when it holds none; unknown object words
\* give no entity and no error.
C21_ObjectTypeIsFirstEntity ==
    (request.op = "parse_command" /\ ~response.raised
        /\ ~HasKey(response.body, "error")) =>
        LET tokens == response.body.tokens
            entities == response.body.entities
            parameters == response.body.parameters
            known == {i \in 1..Len(tokens) : tokens[i] \in ObjectTypes}
            typed == {i \in 1..Len(entities) : entities[i].type = "OBJECT_TYPE"}
        IN  /\ Cardinality(typed) = Cardinality(known)
            /\ \A i \in typed : entities[i].text \in ObjectTypes
            /\ known = {} => ~HasKey(parameters, "object_type")
            /\ known # {} =>
                  /\ HasKey(parameters, "object_type")
                  /\ parameters.object_type = entities[First(typed)].text
                  /\ parameters.object_type = tokens[First(known)]

\* the last call was the query op, answered by the initialized tracker
Queried(op) ==
    /\ request.op = op
    /\ scene_analyzer.initialized
    /\ ~response.raised

\* C22: get_nearest_object returns None when the scene has no objects;
\* otherwise it returns an object whose Euclidean distance to the position is
\* minimal over all objects, and among several objects at that distance the
\* one that comes first in the insertion order of the objects map.
C22_NearestIsFirstMinimum ==
    Queried("get_nearest_object") =>
        LET objects == CurrentScene.objects
            position == request.args.position
            \* the squared distance: x < y exactly when sqrt(x) < sqrt(y)
            Distance(i) ==
                LET p == Get(objects[i].v, "position", <<0, 0, 0>>)
                IN  (position[1] - p[1]) * (position[1] - p[1])
                    + (position[2] - p[2]) * (position[2] - p[2])
                    + (position[3] - p[3]) * (position[3] - p[3])
            minimal == {i \in 1..Len(objects) :
                          \A j \in 1..Len(objects) : Distance(i) <= Distance(j)}
        IN  /\ Len(objects) = 0 => ~response.body.found
            /\ Len(objects) > 0 =>
                  /\ response.body.found
                  /\ \A i \in minimal : (\A j \in minimal : i <= j) =>
                        response.body.obj = objects[i].v

\* two objects at the same distance from the position, and the one inserted
\* first answered; and a scene without objects answered with None
C22_Witness ==
    /\ Queried("get_nearest_object")
    /\ request.args.position = <<-10, 0, -10>>
    /\ Len(CurrentScene.objects) = 2
    /\ CurrentScene.objects[1].v = ObjB
    /\ CurrentScene.objects[2].v = ObjA
    /\ response.body = Found(ObjB)

\* the cells of the 19 x 19 grid that no object of the current scene occupies
FreeCells ==
    ((-9..9) \X (-9..9)) \
    { << PyRound(Get(CurrentScene.objects[i].v, "position", <<0, 0, 0>>)[1]),
         PyRound(Get(CurrentScene.objects[i].v, "position", <<0, 0, 0>>)[3]) >> :
        i \in 1..Len(CurrentScene.objects) }

\* the last call was find_free_position on the initialized tracker, with no
\* reference or with one that names no current object
SearchedGrid ==
    /\ Queried("find_free_position")
    /\ \A i \in 1..Len(CurrentScene.objects) :
          request.args.reference_obj = ""
          \/ CurrentScene.objects[i].k # request.args.reference_obj

\* c comes before d in the expanding scan: smaller Chebyshev radius, then
\* smaller x, then smaller z
ScannedBefore(c, d) ==
    LET Radius(e) == Max({Abs(e[1]), Abs(e[2])})
    IN  \/ Radius(c) < Radius(d)
        \/ Radius(c) = Radius(d) /\ c[1] < d[1]
        \/ Radius(c) = Radius(d) /\ c[1] = d[1] /\ c[2] <= d[2]

\* C23 as stated: without a resolvable reference find_free_position returns
\* (2x, 0, 2z) for the free cell (x, z) that comes first in the expanding scan,
\* and it returns the origin (0, 0, 0) exactly when all 361 cells are
\* occupied.
C23_OriginOnlyWhenFull ==
    SearchedGrid =>
        /\ \A c \in FreeCells : (\A d \in FreeCells : ScannedBefore(c, d)) =>
              response.body.position = <<20 * c[1], 0, 20 * c[2]>>
        /\ response.body.position = <<0, 0, 0>> <=> FreeCells = {}

\* C23: without a resolvable reference find_free_position returns
\* (2x, 0, 2z) for the free cell (x, z) that comes first in the expanding scan
\* (smallest Chebyshev radius, then smallest x, then smallest z), and the
\* origin (0, 0, 0) when all 361 cells are occupied; the origin is returned
\* in no other case than these two: a full grid, or cell (0, 0) free.
C23_FirstFreeCellElseOrigin ==
    SearchedGrid =>
        /\ \A c \in FreeCells : (\A d \in FreeCells : ScannedBefore(c, d)) =>
              response.body.position = <<20 * c[1], 0, 20 * c[2]>>
        /\ FreeCells = {} => response.body.position = <<0, 0, 0>>
        /\ response.body.position = <<0, 0, 0>> =>
              (FreeCells = {} \/ <<0, 0>> \in FreeCells)

\* the search ran over a scene with an object on every one of the 361 cells
\* and fell back to the origin
C23_Witness ==
    /\ SearchedGrid
    /\ Len(CurrentScene.objects) = 361
    /\ FreeCells = {}
    /\ response.body.position = <<0, 0, 0>>

\* C24: analyze_scene_composition reports object_count, light_count and
\* camera_count equal to the sizes of the current category maps;
\* lighting_quality is "dark" for 0 lights, "single_light" for 1,
\* "three_point" for 2 or 3 and "complex" for more than 3; balance is "empty"
\* with no objects, "balanced" when the mean x and the mean z of all object
\* positions both have absolute value below 1.0 and "unbalanced" otherwise;
\* suggestions holds the add-lighting entry exactly when there are no lights
\* and the add-camera entry exactly when there are no cameras, in that order.
C24_CompositionReport ==
    Queried("analyze_scene_composition") =>
        LET analysis == response.body
            objects == CurrentScene.objects
            n == Len(objects)
            lights == Len(CurrentScene.lights)
            cameras == Len(CurrentScene.cameras)
            \* the sum of one coordinate, in tenths, over the objects lo..hi
            RECURSIVE Sum(_, _, _)
            Sum(lo, hi, axis) ==
                IF lo > hi THEN 0
                ELSE IF lo = hi THEN Get(objects[lo].v, "position", <<0, 0, 0>>)[axis]
                ELSE Sum(lo, (lo + hi) \div 2, axis) + Sum((lo + hi) \div 2 + 1, hi, axis)
            \* |sum / n| < 1.0, the sum being in tenths
            MeanBelowOne(axis) ==
                -10 * n < Sum(1, n, axis) /\ Sum(1, n, axis) < 10 * n
        IN  /\ analysis.object_count = n
            /\ analysis.light_count = lights
            /\ analysis.camera_count = cameras
            /\ analysis.lighting_quality =
                  (CASE lights = 0 -> "dark"
                     [] lights = 1 -> "single_light"
                     [] lights \in {2, 3} -> "three_point"
                     [] lights > 3 -> "complex")
            /\ (analysis.balance = "empty") <=> (n = 0)
            /\ (analysis.balance = "balanced") <=>
                  (n > 0 /\ MeanBelowOne(1) /\ MeanBelowOne(3))
            /\ analysis.balance \in {"empty", "balanced", "unbalanced"}
            /\ analysis.suggestions =
                  (IF lights = 0 THEN <<"Add lighting to the scene">> ELSE <<>>)
                  \o (IF cameras = 0 THEN <<"Add a camera to frame the scene">> ELSE <<>>)

\* a scene of two objects whose mean x is exactly -1.0, with two lights and
\* one camera, was analysed
C24_Witness ==
    /\ Queried("analyze_scene_composition")
    /\ Len(CurrentScene.objects) = 2
    /\ Len(CurrentScene.lights) = 2
    /\ Len(CurrentScene.cameras) = 1
    /\ response.body.balance = "unbalanced"
    /\ response.body.lighting_quality = "three_point"
    /\ response.body.suggestions = <<>>

\* C25: in every reachable tracker state each of the objects, lights and
\* cameras maps is keyed by name, every key equal to the name field of its
\* value, and no map holds an entry whose name is empty or missing, whatever
\* lists (with empty names, with duplicated names) were passed to update.
C25_MapsKeyedByNonEmptyName ==
    scene_analyzer.initialized =>
        \A cat \in Categories :
            LET map == CurrentScene[cat]
            IN  \A i \in 1..Len(map) :
                    /\ HasKey(map[i].v, "name")
                    /\ map[i].k = map[i].v.name
                    /\ map[i].k # ""
                    /\ \A j \in 1..Len(map) : map[j].k = map[i].k => j = i

\* C26: the tracker's snapshot and history are mutated only by update calls:
\* interpret, suggest and the queries get_object_by_name, get_objects_by_type,
\* get_nearest_object, find_free_position and analyze_scene_composition leave
\* the three category maps, the metadata and the history unchanged, and no
\* operation other than initialize and shutdown changes the rule and template
\* tables.
C26_OnlyUpdateMutatesTracker ==
    [][ /\ (request'.op \in {"interpret", "suggest", "get_object_by_name",
                             "get_objects_by_type", "get_nearest_object",
                             "find_free_position", "analyze_scene_composition"}
              /\ ~UpdateCalled
              /\ scene_analyzer'.initialized = scene_analyzer.initialized) =>
                /\ scene_analyzer'.current_scene = scene_analyzer.current_scene
                /\ scene_analyzer'.scene_history = scene_analyzer.scene_history
                /\ \A a \in Reachable(scene_analyzer) : heap'[a] = heap[a]
        /\ decision_engine'.initialized = decision_engine.initialized =>
                /\ decision_engine'.rules = decision_engine.rules
                /\ decision_engine'.templates = decision_engine.templates ]_vars

\* a scene built from a template was decided while the tracker held a scene
\* with objects and one history entry, and the tables are as loaded
C26_Witness ==
    /\ request.op = "interpret"
    /\ request.args.command = "create a living room"
    /\ ~response.raised
    /\ scene_analyzer.initialized
    /\ Len(History) = 1
    /\ Len(CurrentScene.objects) = 2
    /\ decision_engine.templates = LoadedTemplates
    /\ decision_engine.rules = LoadedRules

\* C27: the rule-based parser never returns create_camera, modify_camera,
\* create_light or modify_light: every trigger of those four intents contains
\* a trigger of create_object or modify_object, whose rows come earlier in the
\* scan, so "add camera" and "add light" are classified create_object;
\* create_scene is returned only through the trigger "build scene".
C27_SpecificIntentsAreShadowed ==
    LET table == LoadedPatterns
        shadowed == {"create_camera", "modify_camera", "create_light", "modify_light"}
        general == {"create_object", "modify_object"}
    IN  /\ \A i \in 1..Len(table) : table[i].intent \in shadowed =>
              \A j \in 1..Len(table[i].patterns) :
                  \E h \in 1..(i - 1) :
                      /\ table[h].intent \in general
                      /\ \E k \in 1..Len(table[h].patterns) :
                            Contains(table[i].patterns[j], table[h].patterns[k])
        /\ (request.op = "parse_command" /\ ~response.raised) =>
              /\ response.body.intent \notin shadowed
              /\ response.body.intent = "create_scene" =>
                    Contains(Lower(request.args.command), "build scene")

\* "add light" was parsed by the initialized parser and came out as
\* create_object
C27_Witness ==
    /\ request.op = "parse_command"
    /\ request.args.command = "add light"
    /\ ~response.raised
    /\ ~HasKey(response.body, "error")
    /\ response.body.intent = "create_object"

\* C28: in interpret the context given to make_decision is the parsed
\* parameters overlaid by the caller's scene context: for a key present in
\* both the scene-context value wins, so a scene_state carrying object_type,
\* position_hint or relative_to overrides what the parser extracted, and a key
\* present in only one of the two is passed through unchanged.
C28_SceneContextOverridesParsed ==
    InterpretedByRules =>
        LET tables == DecisionEngine_initialize(DecisionEngine_init)
            parser == NLPEngine_initialize(NLPEngine_init,
                                           request.args.env.analysis # "unused")
            scene == request.args.scene_state
            Overlaid(parsed) ==
                LET context == [k \in DOMAIN parsed.parameters \cup DOMAIN scene |->
                                  IF k \in DOMAIN scene THEN scene[k]
                                  ELSE parsed.parameters[k]]
                    decision == DecisionEngine_make_decision(tables, parsed.intent,
                                                             context).body
                IN  /\ response.body.actions = decision.actions
                    /\ (parsed.intent = "create_object" /\ HasKey(scene, "object_type")) =>
                          response.body.actions[1].object_type = scene.object_type
        IN  Overlaid(NLPEngine_parse_command(parser, Strip(request.args.command),
                                             request.args.env.analysis).body)

\* the command names a chair and the scene context carries object_type
\* "table": the action creates a table
C28_Witness ==
    /\ InterpretedByRules
    /\ request.args.command = "add a chair"
    /\ HasKey(request.args.scene_state, "object_type")
    /\ request.args.scene_state.object_type = "table"
    /\ Len(response.body.actions) = 1
    /\ response.body.actions[1].object_type = "table"

====
